---- MODULE Spec2Model ----
(***************************************************************************)
(* A model of the passport field extraction engine of ocr_utils.py:        *)
(* parse_response = merge of parse_mrz_text (MRZ line decoder) and         *)
(* parse_viz_layout (spatial label matcher), with parse_date_from_text and *)
(* convert_yymmdd_to_fmt.                                                  *)
(*                                                                         *)
(* A Python str is a sequence of characters, each character a one-element  *)
(* TLA+ string; a character outside ASCII is an atom named by its code     *)
(* point ("u59D3").  Python's None is the value None below, which is no    *)
(* str.  A dict is a function from its keys.                               *)
(***************************************************************************)
EXTENDS Integers, Sequences, FiniteSets, TLC

VARIABLES
    pc,           \* position in the running function
    now_year,     \* datetime.now().year at the time of the call
    full_text,    \* response.text_annotations[0].description
    annotations,  \* response.text_annotations[1:]
    line1,        \* parse_mrz_text: the selected MRZ line 1 (None: not found)
    line2,        \* parse_mrz_text: the selected MRZ line 2, as selected
    l2fix,        \* parse_mrz_text: line 2 after the correction loop
    mrz_data,     \* parse_mrz_text: the dict it returns
    viz_data,     \* parse_viz_layout: the dict it returns
    merged,       \* parse_response: merge_val(...) of each key
    data,         \* parse_response: the dict it returns
    raised,       \* the exception that left the running function ("" : none)
    arg,          \* the argument of a helper called on its own
    ret           \* and what it returned

vars == <<pc, now_year, full_text, annotations, line1, line2, l2fix,
          mrz_data, viz_data, merged, data, raised, arg, ret>>

----------------------------------------------------------------------------
(* Characters and Python's str methods *)

None == <<"<None>">>

Digits == {"0", "1", "2", "3", "4", "5", "6", "7", "8", "9"}

UpperLetters ==
    {"A", "B", "C", "D", "E", "F", "G", "H", "I", "J", "K", "L", "M",
     "N", "O", "P", "Q", "R", "S", "T", "U", "V", "W", "X", "Y", "Z"}

LowerLetters ==
    {"a", "b", "c", "d", "e", "f", "g", "h", "i", "j", "k", "l", "m",
     "n", "o", "p", "q", "r", "s", "t", "u", "v", "w", "x", "y", "z"}

Whitespace == {" ", "\n", "\t"}

ToUpper ==
    ("a" :> "A") @@ ("b" :> "B") @@ ("c" :> "C") @@ ("d" :> "D") @@
    ("e" :> "E") @@ ("f" :> "F") @@ ("g" :> "G") @@ ("h" :> "H") @@
    ("i" :> "I") @@ ("j" :> "J") @@ ("k" :> "K") @@ ("l" :> "L") @@
    ("m" :> "M") @@ ("n" :> "N") @@ ("o" :> "O") @@ ("p" :> "P") @@
    ("q" :> "Q") @@ ("r" :> "R") @@ ("s" :> "S") @@ ("t" :> "T") @@
    ("u" :> "U") @@ ("v" :> "V") @@ ("w" :> "W") @@ ("x" :> "X") @@
    ("y" :> "Y") @@ ("z" :> "Z")

DigitVal ==
    ("0" :> 0) @@ ("1" :> 1) @@ ("2" :> 2) @@ ("3" :> 3) @@ ("4" :> 4) @@
    ("5" :> 5) @@ ("6" :> 6) @@ ("7" :> 7) @@ ("8" :> 8) @@ ("9" :> 9)

DigitChar == <<"0", "1", "2", "3", "4", "5", "6", "7", "8", "9">>

SetMin(S) == CHOOSE x \in S : \A y \in S : x <= y

SetMax(S) == CHOOSE x \in S : \A y \in S : x >= y

\* bool(v) of a str or None
Truthy(v) == v # None /\ v # <<>>

\* s[a:b] with 0 <= a, 0 <= b
Slice(s, a, b) == SubSeq(s, a + 1, IF b < Len(s) THEN b ELSE Len(s))

\* s[a:]
SliceFrom(s, a) == SubSeq(s, a + 1, Len(s))

UpperCh(c) == IF c \in DOMAIN ToUpper THEN ToUpper[c] ELSE c

\* s.upper()
Upper(s) == [i \in 1..Len(s) |-> UpperCh(s[i])]

\* s.strip()
Strip(s) ==
    LET keep == {i \in 1..Len(s) : s[i] \notin Whitespace}
    IN  IF keep = {} THEN <<>> ELSE SubSeq(s, SetMin(keep), SetMax(keep))

\* s.isdigit()
IsDigitStr(s) == s # <<>> /\ \A i \in 1..Len(s) : s[i] \in Digits

\* sub occurs in s at (1-based) position i
OccursAt(sub, s, i) ==
    /\ i >= 1
    /\ i + Len(sub) - 1 <= Len(s)
    /\ \A k \in 1..Len(sub) : s[i + k - 1] = sub[k]

\* sub in s
Contains(sub, s) == \E i \in 1..(Len(s) - Len(sub) + 1) : OccursAt(sub, s, i)

\* s.find(sub) + 1 (0: not found), searching from position from
FindFrom(sub, s, from) ==
    LET hits == {i \in from..(Len(s) - Len(sub) + 1) : OccursAt(sub, s, i)}
    IN  IF hits = {} THEN 0 ELSE SetMin(hits)

\* s.startswith(p)
StartsWith(s, p) == OccursAt(p, s, 1)

\* s.count(c) of one character
CountCh(s, c) == Cardinality({i \in 1..Len(s) : s[i] = c})

\* s.replace(c, '') of one character
RemoveCh(s, c) == SelectSeq(s, LAMBDA x : x # c)

\* s.replace(c, d) of one character by one character
ReplaceCh(s, c, d) == [i \in 1..Len(s) |-> IF s[i] = c THEN d ELSE s[i]]

RECURSIVE Replace(_, _, _)
\* s.replace(old, new), old not empty: the occurrences left to right, not overlapping
Replace(s, old, new) ==
    LET i == FindFrom(old, s, 1)
    IN  IF i = 0 THEN s
        ELSE SubSeq(s, 1, i - 1) \o new
                 \o Replace(SubSeq(s, i + Len(old), Len(s)), old, new)

RECURSIVE Split(_, _)
\* s.split(sep), sep not empty
Split(s, sep) ==
    LET i == FindFrom(sep, s, 1)
    IN  IF i = 0 THEN <<s>>
        ELSE <<SubSeq(s, 1, i - 1)>>
                 \o Split(SubSeq(s, i + Len(sep), Len(s)), sep)

\* s.split(sep, 1)[1] when sep occurs in s
AfterFirst(s, sep) ==
    LET i == FindFrom(sep, s, 1) IN SubSeq(s, i + Len(sep), Len(s))

RECURSIVE Join(_, _)
\* sep.join(parts)
Join(parts, sep) ==
    IF parts = <<>> THEN <<>>
    ELSE IF Len(parts) = 1 THEN parts[1]
    ELSE parts[1] \o sep \o Join(Tail(parts), sep)

RECURSIVE PyStr(_)
\* str(n) of an int n >= 0
PyStr(n) ==
    IF n < 10 THEN <<DigitChar[n + 1]>>
    ELSE PyStr(n \div 10) \o <<DigitChar[(n % 10) + 1]>>

RECURSIVE ZFill(_, _)
\* s.zfill(w) of a str without sign
ZFill(s, w) == IF Len(s) >= w THEN s ELSE ZFill(<<"0">> \o s, w)

\* int(s) succeeds (no sign or underscore in the alphabet)
PyIntOk(s) == IsDigitStr(Strip(s))

RECURSIVE DigitsVal(_)
DigitsVal(s) ==
    IF s = <<>> THEN 0
    ELSE 10 * DigitsVal(SubSeq(s, 1, Len(s) - 1)) + DigitVal[s[Len(s)]]

\* int(s) when it succeeds
PyInt(s) == DigitsVal(Strip(s))

\* dict.get(key): None when the key is absent
Get(d, key) == IF key \in DOMAIN d THEN d[key] ELSE None

\* the dict d after d[key] = val
Put(d, key, val) == [k \in DOMAIN d \cup {key} |-> IF k = key THEN val ELSE d[k]]

EmptyDict == [k \in {} |-> None]

----------------------------------------------------------------------------
(* convert_yymmdd_to_fmt *)

\* FormatDate with the month and the day not padded to two digits
FormatDateUnpadded(full_year, m, d) ==
    PyStr(full_year) \o <<"/">> \o PyStr(m) \o <<"/">> \o PyStr(d)

\* the f-string of line 535
FormatDate(full_year, m, d) ==
    PyStr(full_year) \o <<"/">> \o ZFill(PyStr(m), 2) \o <<"/">> \o ZFill(PyStr(d), 2)

\* FullYear with the current two-digit year itself sent to the 1900s
FullYearInclusive(y, future, year) ==
    LET current_yy == year % 100
    IN  IF future THEN 2000 + y
        ELSE IF y >= current_yy THEN 1900 + y ELSE 2000 + y

\* lines 530-533: the century of a two-digit year
FullYear(y, future, year) ==
    LET current_yy == year % 100
    IN  IF future THEN 2000 + y
        ELSE IF y > current_yy THEN 1900 + y ELSE 2000 + y

convert_yymmdd_to_fmt(yymmdd, future, year) ==
    IF ~Truthy(yymmdd) \/ Len(yymmdd) < 6 THEN yymmdd
    ELSE IF ~(/\ PyIntOk(Slice(yymmdd, 0, 2))
              /\ PyIntOk(Slice(yymmdd, 2, 4))
              /\ PyIntOk(Slice(yymmdd, 4, 6)))
         THEN yymmdd   \* int() raised ValueError: except: return yymmdd
    ELSE LET y == PyInt(Slice(yymmdd, 0, 2))
             m == PyInt(Slice(yymmdd, 2, 4))
             d == PyInt(Slice(yymmdd, 4, 6))
         IN  IF m < 1 \/ m > 12 THEN yymmdd
             ELSE FormatDate(FullYear(y, future, year), m, d)

----------------------------------------------------------------------------
(* parse_date_from_text *)

\* month_map, in the order of its items()
month_map ==
    << [mon |-> <<"J", "A", "N">>, num |-> <<"0", "1">>],
       [mon |-> <<"F", "E", "B">>, num |-> <<"0", "2">>],
       [mon |-> <<"M", "A", "R">>, num |-> <<"0", "3">>],
       [mon |-> <<"A", "P", "R">>, num |-> <<"0", "4">>],
       [mon |-> <<"M", "A", "Y">>, num |-> <<"0", "5">>],
       [mon |-> <<"J", "U", "N">>, num |-> <<"0", "6">>],
       [mon |-> <<"J", "U", "L">>, num |-> <<"0", "7">>],
       [mon |-> <<"A", "U", "G">>, num |-> <<"0", "8">>],
       [mon |-> <<"S", "E", "P">>, num |-> <<"0", "9">>],
       [mon |-> <<"O", "C", "T">>, num |-> <<"1", "0">>],
       [mon |-> <<"N", "O", "V">>, num |-> <<"1", "1">>],
       [mon |-> <<"D", "E", "C">>, num |-> <<"1", "2">>] >>

\* the characters of the model that are not ASCII: the label vocabulary's kanji
Kanji ==
    {"u65C5", "u5238", "u756A", "u53F7", "u59D3", "u540D", "u56FD", "u7C4D",
     "u751F", "u5E74", "u6708", "u65E5", "u6027", "u5225", "u6709", "u52B9",
     "u671F", "u9593", "u6E80", "u4E86", "u6240", "u6301", "u4EBA", "u81EA",
     "u7F72", "u767A", "u884C", "u5B98", "u5E81", "u578B", "u672C"}

\* \w of a str pattern
WordCh(c) == c \in UpperLetters \cup LowerLetters \cup Digits \cup {"_"} \cup Kanji

\* \b between the characters i-1 and i of s (1-based, 1 <= i <= Len(s)+1)
Boundary(s, i) ==
    LET before == i - 1 >= 1 /\ WordCh(s[i - 1])
        after  == i <= Len(s) /\ WordCh(s[i])
    IN  before # after

RECURSIVE PickFrom(_, _, _)
\* the characters of s at the positions of keep, from position i on
PickFrom(s, keep, i) ==
    IF i > Len(s) THEN <<>>
    ELSE (IF i \in keep THEN <<s[i]>> ELSE <<>>) \o PickFrom(s, keep, i + 1)

\* re.sub(r'[^A-Z0-9\s]', ' ', s)
DateClean(s) ==
    [i \in 1..Len(s) |->
        IF s[i] \in UpperLetters \cup Digits \cup Whitespace THEN s[i] ELSE " "]

\* re.sub(r'\s+', ' ', s)
CollapseSpace(s) ==
    LET t == [i \in 1..Len(s) |-> IF s[i] \in Whitespace THEN " " ELSE s[i]]
        keep == {i \in 1..Len(s) : t[i] # " " \/ i = 1 \/ t[i - 1] # " "}
    IN  PickFrom(t, keep, 1)

\* lines 329-330
DateNorm(text) == Strip(CollapseSpace(DateClean(Upper(text))))

\* re.search(r'\b(19|20)\d{2}\b', s).group(0), None without a match
YearMatch(s) ==
    LET hits == {i \in 1..(Len(s) - 3) :
                    /\ Boundary(s, i)
                    /\ SubSeq(s, i, i + 1) \in {<<"1", "9">>, <<"2", "0">>}
                    /\ s[i + 2] \in Digits
                    /\ s[i + 3] \in Digits
                    /\ Boundary(s, i + 4)}
    IN  IF hits = {} THEN None ELSE SubSeq(s, SetMin(hits), SetMin(hits) + 3)

\* the length of the match of \b(\d{1,2})\b at position i of s (0: no match)
DayLenAt(s, i) ==
    IF ~(Boundary(s, i) /\ s[i] \in Digits) THEN 0
    ELSE IF i + 1 <= Len(s) /\ s[i + 1] \in Digits /\ Boundary(s, i + 2) THEN 2
    ELSE IF Boundary(s, i + 1) THEN 1
    ELSE 0

\* re.search(r'\b(\d{1,2})\b', s).group(1), None without a match
DayMatch(s) ==
    LET hits == {i \in 1..Len(s) : DayLenAt(s, i) > 0}
    IN  IF hits = {} THEN None
        ELSE SubSeq(s, SetMin(hits), SetMin(hits) + DayLenAt(s, SetMin(hits)) - 1)

RECURSIVE DateLoop(_, _)
\* lines 333-353: the loop over month_map from its k-th item on
DateLoop(norm, k) ==
    IF k > Len(month_map) THEN <<>>
    ELSE IF ~Contains(month_map[k].mon, norm) THEN DateLoop(norm, k + 1)
    ELSE LET y_str == YearMatch(norm)
         IN  IF y_str = None THEN DateLoop(norm, k + 1)
             ELSE LET rem_str == Replace(norm, y_str, <<>>)
                      d_str == DayMatch(rem_str)
                  IN  IF d_str # None
                      THEN y_str \o <<"/">> \o month_map[k].num \o <<"/">> \o ZFill(d_str, 2)
                      ELSE DateLoop(norm, k + 1)

parse_date_from_text(text) == DateLoop(DateNorm(text), 1)

----------------------------------------------------------------------------
(* parse_mrz_text *)

\* line 362: the stripped non-empty lines of the text
MrzLines(text) ==
    LET raw == Split(text, <<"\n">>)
        stripped == [i \in 1..Len(raw) |-> Strip(raw[i])]
    IN  SelectSeq(stripped, LAMBDA l : l # <<>>)

\* re.sub(r'[\(\){}\[\]]', '<', s)
BracketsToFiller(s) ==
    [i \in 1..Len(s) |->
        IF s[i] \in {"(", ")", "{", "}", "[", "]"} THEN "<" ELSE s[i]]

\* lines 378-380
CleanLine(line) == BracketsToFiller(RemoveCh(Upper(Strip(line)), " "))

\* lines 373-383
Candidates(text) ==
    LET lines == MrzLines(text)
        cleaned == [i \in 1..Len(lines) |-> CleanLine(lines[i])]
    IN  SelectSeq(cleaned, LAMBDA c : Len(c) > 10)

\* sum(c.isdigit() for c in seq)
DigitCount(seq) == Cardinality({i \in 1..Len(seq) : seq[i] \in Digits})

\* the test with the 10 digits the comment of line 396 speaks of
IsLine2TenDigits(seq) ==
    /\ Len(seq) > 20
    /\ DigitCount(seq) >= 10
    /\ 5 * DigitCount(seq) > 2 * Len(seq)

\* lines 394-403; digit_count / len(seq) > 0.4 of two ints below 2^53 is
\* 5 * digit_count > 2 * len(seq)
IsLine2(seq) ==
    /\ Len(seq) > 20
    /\ DigitCount(seq) >= 8
    /\ 5 * DigitCount(seq) > 2 * Len(seq)

NoPair == [line1 |-> None, line2 |-> None]

RECURSIVE Strategy1(_, _)
\* lines 391-420: the loop from its i-th candidate on (1-based)
Strategy1(candidates, i) ==
    IF i > Len(candidates) THEN NoPair
    ELSE IF IsLine2(candidates[i]) /\ i > 1
            /\ (\/ StartsWith(candidates[i - 1], <<"P">>)
                \/ CountCh(candidates[i - 1], "<") >= 2)
         THEN [line1 |-> candidates[i - 1], line2 |-> candidates[i]]
         ELSE Strategy1(candidates, i + 1)

RECURSIVE Strategy2(_, _)
\* lines 424-431: the loop from its i-th candidate on (1-based)
Strategy2(candidates, i) ==
    IF i > Len(candidates) THEN NoPair
    ELSE IF /\ StartsWith(candidates[i], <<"P">>)
            /\ Contains(<<"<">>, candidates[i])
            /\ CountCh(candidates[i], "<") >= 2
            /\ i + 1 <= Len(candidates)
            /\ DigitCount(candidates[i + 1]) > 5
         THEN [line1 |-> candidates[i], line2 |-> candidates[i + 1]]
         ELSE Strategy2(candidates, i + 1)

\* the label pass before the digit pass
SelectLinesAnchorFirst(text) ==
    LET candidates == Candidates(text)
        first == Strategy2(candidates, 1)
    IN  IF ~Truthy(first.line1) \/ ~Truthy(first.line2)
        THEN Strategy1(candidates, 1)
        ELSE first

\* lines 385-431
SelectLines(text) ==
    LET candidates == Candidates(text)
        first == Strategy1(candidates, 1)
    IN  IF ~Truthy(first.line1) \/ ~Truthy(first.line2)
        THEN Strategy2(candidates, 1)
        ELSE first

\* FixOffsets as one window that also covers the offsets 19 and 20
FixOffsetsOneWindow == 13..26

\* line 439
FixOffsets == {13, 14, 15, 16, 17, 18, 21, 22, 23, 24, 25, 26}

\* lines 441-446: the six tests in their order
FixChar(c) ==
    LET c1 == IF c = "O" THEN "0" ELSE c
        c2 == IF c1 = "I" THEN "1" ELSE c1
        c3 == IF c2 = "D" THEN "0" ELSE c2
        c4 == IF c3 = "S" THEN "5" ELSE c3
        c5 == IF c4 = "B" THEN "8" ELSE c4
    IN  IF c5 = "Z" THEN "2" ELSE c5

\* lines 438-447
CorrectLine2(l2) ==
    [i \in 1..Len(l2) |-> IF (i - 1) \in FixOffsets THEN FixChar(l2[i]) ELSE l2[i]]

\* RawMrz built from line 2 after its correction
RawMrzAfterCorrection(l1, l2) == l1 \o <<"\n">> \o CorrectLine2(l2)

\* line 434
RawMrz(l1, l2) == l1 \o <<"\n">> \o l2

\* lines 478-492
DecodeSurname(surname_part) ==
    LET clean_s == RemoveCh(surname_part, "<")
    IN  IF Contains(<<"J", "P", "N">>, clean_s)
        THEN Strip(AfterFirst(clean_s, <<"J", "P", "N">>))
        ELSE IF Len(clean_s) > 5 THEN SliceFrom(clean_s, 5) ELSE clean_s

\* lines 450-501: the dict after the first try block
DecodeLine1(d, l1) ==
    IF StartsWith(l1, <<"P">>)
    THEN LET content == SliceFrom(l1, 1)
             parts == Split(content, <<"<", "<">>)
             d1 == Put(d, "surname", DecodeSurname(parts[1]))
         IN  IF Len(parts) > 1
             THEN Put(d1, "given_name", Strip(ReplaceCh(parts[2], "<", " ")))
             ELSE d1
    ELSE d

\* re.match(r'([A-Z0-9]{9})', s) matches
MatchesNineAlnum(s) ==
    Len(s) >= 9 /\ \A i \in 1..9 : s[i] \in UpperLetters \cup Digits

\* lines 504-516, the body of the second try block: the dict it has built
\* and the exception that ended it ("" when it ran to its end)
Line2Body(d, l2, year) ==
    LET d1 == IF MatchesNineAlnum(l2)
              THEN Put(d, "passport_no", RemoveCh(Slice(l2, 0, 9), "<"))
              ELSE d
    IN  IF ~(Len(l2) > 19) THEN [d |-> d1, exc |-> ""]
        ELSE LET dob == Slice(l2, 13, 19)
                 d2 == IF IsDigitStr(dob)
                       THEN Put(d1, "birth_date", convert_yymmdd_to_fmt(dob, FALSE, year))
                       ELSE d1
             IN  IF ~(20 < Len(l2)) THEN [d |-> d2, exc |-> "IndexError"]
                 ELSE LET d3 == Put(d2, "sex", <<l2[21]>>)
                          exp == Slice(l2, 21, 27)
                      IN  IF IsDigitStr(exp)
                          THEN [d |-> Put(d3, "expiry_date",
                                          convert_yymmdd_to_fmt(exp, TRUE, year)),
                                exc |-> ""]
                          ELSE [d |-> d3, exc |-> ""]

\* DecodeLine2 without its except clause: the exception leaves the function
DecodeLine2Unguarded(d, l2, year) == Line2Body(d, l2, year)

\* lines 503-517: try: ... except: pass
DecodeLine2(d, l2, year) ==
    LET r == Line2Body(d, l2, year) IN [d |-> r.d, exc |-> ""]

\* parse_mrz_text as a whole
parse_mrz_text(text, year) ==
    LET sel == SelectLines(text)
    IN  IF Truthy(sel.line1) /\ Truthy(sel.line2)
        THEN LET d0 == Put(EmptyDict, "raw_mrz", RawMrz(sel.line1, sel.line2))
                 d1 == DecodeLine1(d0, sel.line1)
             IN  DecodeLine2(d1, CorrectLine2(sel.line2), year).d
        ELSE EmptyDict

----------------------------------------------------------------------------
(* parse_viz_layout *)

\* JAPAN_PREFECTURES, a set: its iteration order is not fixed by the program
JAPAN_PREFECTURES ==
    { <<"H", "O", "K", "K", "A", "I", "D", "O">>,
      <<"A", "O", "M", "O", "R", "I">>,
      <<"I", "W", "A", "T", "E">>,
      <<"M", "I", "Y", "A", "G", "I">>,
      <<"A", "K", "I", "T", "A">>,
      <<"Y", "A", "M", "A", "G", "A", "T", "A">>,
      <<"F", "U", "K", "U", "S", "H", "I", "M", "A">>,
      <<"I", "B", "A", "R", "A", "K", "I">>,
      <<"T", "O", "C", "H", "I", "G", "I">>,
      <<"G", "U", "N", "M", "A">>,
      <<"S", "A", "I", "T", "A", "M", "A">>,
      <<"C", "H", "I", "B", "A">>,
      <<"T", "O", "K", "Y", "O">>,
      <<"K", "A", "N", "A", "G", "A", "W", "A">>,
      <<"N", "I", "I", "G", "A", "T", "A">>,
      <<"T", "O", "Y", "A", "M", "A">>,
      <<"I", "S", "H", "I", "K", "A", "W", "A">>,
      <<"F", "U", "K", "U", "I">>,
      <<"Y", "A", "M", "A", "N", "A", "S", "H", "I">>,
      <<"N", "A", "G", "A", "N", "O">>,
      <<"G", "I", "F", "U">>,
      <<"S", "H", "I", "Z", "U", "O", "K", "A">>,
      <<"A", "I", "C", "H", "I">>,
      <<"M", "I", "E">>,
      <<"S", "H", "I", "G", "A">>,
      <<"K", "Y", "O", "T", "O">>,
      <<"O", "S", "A", "K", "A">>,
      <<"H", "Y", "O", "G", "O">>,
      <<"N", "A", "R", "A">>,
      <<"W", "A", "K", "A", "Y", "A", "M", "A">>,
      <<"T", "O", "T", "T", "O", "R", "I">>,
      <<"S", "H", "I", "M", "A", "N", "E">>,
      <<"O", "K", "A", "Y", "A", "M", "A">>,
      <<"H", "I", "R", "O", "S", "H", "I", "M", "A">>,
      <<"Y", "A", "M", "A", "G", "U", "C", "H", "I">>,
      <<"T", "O", "K", "U", "S", "H", "I", "M", "A">>,
      <<"K", "A", "G", "A", "W", "A">>,
      <<"E", "H", "I", "M", "E">>,
      <<"K", "O", "C", "H", "I">>,
      <<"F", "U", "K", "U", "O", "K", "A">>,
      <<"S", "A", "G", "A">>,
      <<"N", "A", "G", "A", "S", "A", "K", "I">>,
      <<"K", "U", "M", "A", "M", "O", "T", "O">>,
      <<"O", "I", "T", "A">>,
      <<"M", "I", "Y", "A", "Z", "A", "K", "I">>,
      <<"K", "A", "G", "O", "S", "H", "I", "M", "A">>,
      <<"O", "K", "I", "N", "A", "W", "A">> }

\* lines 154-164: key and labels of the targets ('dir' is 'BELOW' in all of
\* them, 'pat' is not read)
targets ==
    << [key |-> "passport_no",
        labels |-> << <<"P", "a", "s", "s", "p", "o", "r", "t">>,
                    <<"N", "o">>,
                    <<"u65C5", "u5238", "u756A", "u53F7">> >>],
       [key |-> "surname",
        labels |-> << <<"S", "u", "r", "n", "a", "m", "e">>,
                    <<"u59D3">> >>],
       [key |-> "given_name",
        labels |-> << <<"G", "i", "v", "e", "n">>,
                    <<"u540D">> >>],
       [key |-> "nationality",
        labels |-> << <<"N", "a", "t", "i", "o", "n", "a", "l", "i", "t", "y">>,
                    <<"u56FD", "u7C4D">> >>],
       [key |-> "birth_date",
        labels |-> << <<"B", "i", "r", "t", "h">>,
                    <<"u751F", "u5E74", "u6708", "u65E5">> >>],
       [key |-> "sex",
        labels |-> << <<"S", "e", "x">>,
                    <<"u6027", "u5225">> >>],
       [key |-> "issue_date",
        labels |-> << <<"I", "s", "s", "u", "e">>,
                    <<"u767A", "u884C", "u5E74", "u6708", "u65E5">> >>],
       [key |-> "domicile",
        labels |-> << <<"R", "e", "g", "i", "s", "t", "e", "r", "e", "d">>,
                    <<"D", "o", "m", "i", "c", "i", "l", "e">>,
                    <<"u672C", "u7C4D">> >>],
       [key |-> "expiry_date",
        labels |-> << <<"E", "x", "p", "i", "r", "y">>,
                    <<"u6709", "u52B9", "u671F", "u9593", "u6E80", "u4E86", "u65E5">> >>] >>

\* lines 167-171
stop_words ==
    { <<"N", "A", "M", "E">>,
      <<"S", "U", "R", "N", "A", "M", "E">>,
      <<"G", "I", "V", "E", "N">>,
      <<"D", "A", "T", "E">>,
      <<"B", "I", "R", "T", "H">>,
      <<"E", "X", "P", "I", "R", "Y">>,
      <<"S", "E", "X">>,
      <<"N", "A", "T", "I", "O", "N", "A", "L", "I", "T", "Y">>,
      <<"P", "A", "S", "S", "P", "O", "R", "T">>,
      <<"N", "O">>,
      <<"J", "A", "P", "A", "N">>,
      <<"I", "S", "S", "U", "I", "N", "G">>,
      <<"C", "O", "U", "N", "T", "R", "Y">>,
      <<"M", "I", "N", "I", "S", "T", "R", "Y">>,
      <<"F", "O", "R", "E", "I", "G", "N">>,
      <<"A", "F", "F", "A", "I", "R", "S">>,
      <<"R", "E", "G", "I", "S", "T", "E", "R", "E", "D">>,
      <<"D", "O", "M", "I", "C", "I", "L", "E">>,
      <<"S", "I", "G", "N", "A", "T", "U", "R", "E">>,
      <<"B", "E", "A", "R", "E", "R">>,
      <<"A", "U", "T", "H", "O", "R", "I", "T", "Y">>,
      <<"T", "Y", "P", "E">>,
      <<"J", "P", "N">>,
      <<"I", "S", "S", "U", "E">>,
      <<"u65C5", "u5238", "u756A", "u53F7">>,
      <<"u59D3">>,
      <<"u540D">>,
      <<"u56FD", "u7C4D">>,
      <<"u751F", "u5E74", "u6708", "u65E5">>,
      <<"u6027", "u5225">>,
      <<"u6709", "u52B9", "u671F", "u9593", "u6E80", "u4E86", "u65E5">>,
      <<"u6240", "u6301", "u4EBA", "u81EA", "u7F72">>,
      <<"u767A", "u884C", "u5B98", "u5E81">>,
      <<"u578B">>,
      <<"u767A", "u884C", "u56FD">>,
      <<"u672C", "u7C4D">>,
      <<"u767A", "u884C", "u5E74", "u6708", "u65E5">> }

\* line 253
LabelFragments ==
    { <<"u540D">>,
      <<"u59D3">>,
      <<"u56FD", "u7C4D">>,
      <<"u751F", "u5E74", "u6708", "u65E5">>,
      <<"u6027", "u5225">>,
      <<"u6709", "u52B9", "u671F", "u9593">> }

\* line 297: the class [u767A u884C u5E74 u6708 u65E5]
JpLabelChars == {"u767A", "u884C", "u5E74", "u6708", "u65E5"}

\* s with every character of the set chars removed
RemoveChars(s, chars) == SelectSeq(s, LAMBDA x : x \notin chars)

Min2(a, b) == IF a <= b THEN a ELSE b

Max2(a, b) == IF a >= b THEN a ELSE b

\* get_bbox, of the four vertices of a token
get_bbox(ann) ==
    LET vs == ann.vertices
    IN  [min_x |-> Min2(Min2(vs[1].x, vs[2].x), Min2(vs[3].x, vs[4].x)),
         min_y |-> Min2(Min2(vs[1].y, vs[2].y), Min2(vs[3].y, vs[4].y)),
         max_x |-> Max2(Max2(vs[1].x, vs[2].x), Max2(vs[3].x, vs[4].x)),
         max_y |-> Max2(Max2(vs[1].y, vs[2].y), Max2(vs[3].y, vs[4].y))]

\* 4 * get_center(ann)[0]: the sum of the four x, the centre being sum / 4
CenterX4(ann) ==
    LET vs == ann.vertices IN vs[1].x + vs[2].x + vs[3].x + vs[4].x

\* the sort key of lines 195 and 241 for a is below that of b
KeyLess(a, b) ==
    LET ka == get_bbox(a)
        kb == get_bbox(b)
    IN  \/ ka.min_y < kb.min_y
        \/ ka.min_y = kb.min_y /\ ka.min_x < kb.min_x

RECURSIVE SortTopLeft(_)
\* list.sort(key=(top, left)): stable
SortTopLeft(seq) ==
    IF seq = <<>> THEN <<>>
    ELSE LET front == SortTopLeft(SubSeq(seq, 1, Len(seq) - 1))
             a == seq[Len(seq)]
             n == Cardinality({i \in 1..Len(front) : ~KeyLess(a, front[i])})
         IN  SubSeq(front, 1, n) \o <<a>> \o SubSeq(front, n + 1, Len(front))

\* line 177 (and 180 for a label)
LabelText(desc) == RemoveCh(RemoveCh(Upper(Strip(desc)), "."), ":")

\* lines 182-186
LabelMatches(lbl, text) ==
    LET lbl_upper == RemoveCh(RemoveCh(Upper(lbl), "."), ":")
    IN  \/ lbl_upper = text
        \/ Len(lbl_upper) > 3 /\ Contains(lbl_upper, text)

\* lines 176-186: matched_labels[tgt.key], without the repetitions
MatchedLabels(anns, tgt) ==
    SelectSeq(anns, LAMBDA ann :
        \E k \in 1..Len(tgt.labels) :
            LabelMatches(tgt.labels[k], LabelText(ann.description)))

\* line 208
StopText(desc) == Strip(RemoveCh(RemoveCh(Upper(desc), "."), ":"))

\* InRoi that takes only what starts below the bottom of the label
InRoiBelowBottom(base, ann) ==
    LET b == get_bbox(base)
        a == get_bbox(ann)
        base_h == b.max_y - b.min_y
        base_w == b.max_x - b.min_x
    IN  /\ a.min_y > b.max_y
        /\ 2 * (a.min_y - b.max_y) < 5 * base_h
        /\ 4 * (b.min_x - base_w * 8) < CenterX4(ann)
        /\ CenterX4(ann) < 4 * (b.max_x + base_w * 5)

\* InRoi with the edges of the region taken in
InRoiClosed(base, ann) ==
    LET b == get_bbox(base)
        a == get_bbox(ann)
        base_h == b.max_y - b.min_y
        base_w == b.max_x - b.min_x
    IN  /\ 10 * a.min_y >= 10 * b.min_y + base_h
        /\ 2 * (a.min_y - b.max_y) < 5 * base_h
        /\ 4 * (b.min_x - base_w * 8) <= CenterX4(ann)
        /\ CenterX4(ann) <= 4 * (b.max_x + base_w * 5)

\* lines 223-235, in integers: ay1 > by1 + base_h * 0.1,
\* ay1 - by2 < base_h * 2.5, bx1 - base_w*8 < acx < bx2 + base_w*5
InRoi(base, ann) ==
    LET b == get_bbox(base)
        a == get_bbox(ann)
        base_h == b.max_y - b.min_y
        base_w == b.max_x - b.min_x
    IN  /\ 10 * a.min_y > 10 * b.min_y + base_h
        /\ 2 * (a.min_y - b.max_y) < 5 * base_h
        /\ 4 * (b.min_x - base_w * 8) < CenterX4(ann)
        /\ CenterX4(ann) < 4 * (b.max_x + base_w * 5)

\* lines 204-238
RoiCandidates(anns, base, key) ==
    SelectSeq(anns, LAMBDA ann :
        /\ ann # base
        /\ ~(key # "nationality" /\ StopText(ann.description) \in stop_words)
        /\ InRoi(base, ann))

RECURSIVE CombineLoop(_, _, _, _)
\* lines 244-257: the loop from its i-th candidate on
CombineLoop(cands, i, key, acc) ==
    IF i > Len(cands) THEN acc
    ELSE LET word == Strip(cands[i].description)
             w_upper == RemoveCh(Upper(word), ".")
         IN  IF key # "nationality" /\ w_upper \in stop_words THEN acc
             ELSE IF /\ \E sw \in LabelFragments : Contains(sw, word)
                     /\ Len(word) > 1
                     /\ key \notin {"surname", "given_name"}
                  THEN acc
             ELSE CombineLoop(cands, i + 1, key, acc \o <<" ">> \o word)

\* re.search(r'\b([MF])\b', s).group(1), None without a match
SexMatch(s) ==
    LET hits == {i \in 1..Len(s) :
                    s[i] \in {"M", "F"} /\ Boundary(s, i) /\ Boundary(s, i + 1)}
    IN  IF hits = {} THEN None ELSE <<s[SetMin(hits)]>>

\* the number of whitespace characters of s from position i on
WsRun(s, i) ==
    LET stops == {j \in i..Len(s) : s[j] \notin Whitespace}
    IN  IF stops = {} THEN Len(s) - i + 1 ELSE SetMin(stops) - i

\* r'([A-Z]{2})\s*(\d{7})' matches s at position i
PassportAt(s, i) ==
    /\ i + 1 <= Len(s)
    /\ s[i] \in UpperLetters
    /\ s[i + 1] \in UpperLetters
    /\ LET j == i + 2 + WsRun(s, i + 2)
       IN  j + 6 <= Len(s) /\ \A k \in j..(j + 6) : s[k] \in Digits

\* re.search of that pattern: whether it matches, and the letters, the
\* whitespace and the digits of the leftmost match
PassportSearch(s) ==
    LET hits == {i \in 1..Len(s) : PassportAt(s, i)}
    IN  IF hits = {}
        THEN [found |-> FALSE, letters |-> <<>>, space |-> <<>>, digits |-> <<>>]
        ELSE LET i == SetMin(hits)
                 w == WsRun(s, i + 2)
             IN  [found   |-> TRUE,
                  letters |-> SubSeq(s, i, i + 1),
                  space   |-> SubSeq(s, i + 2, i + 1 + w),
                  digits  |-> SubSeq(s, i + 2 + w, i + 8 + w)]

RECURSIVE SplitWs(_)
\* s.split()
SplitWs(s) ==
    LET t == Strip(s)
        ws == {i \in 1..Len(t) : t[i] \in Whitespace}
    IN  IF t = <<>> THEN <<>>
        ELSE IF ws = {} THEN <<t>>
        ELSE <<SubSeq(t, 1, SetMin(ws) - 1)>>
                 \o SplitWs(SubSeq(t, SetMin(ws), Len(t)))

\* PrefecturesIn on the text as it is, not upper-cased
PrefecturesInAsWritten(combined_text) ==
    {pref \in JAPAN_PREFECTURES : Contains(pref, combined_text)}

\* lines 284-287: the names the loop over the set can stop at
PrefecturesIn(combined_text) ==
    LET upper_text == Upper(combined_text)
    IN  {pref \in JAPAN_PREFECTURES : Contains(pref, upper_text)}

\* DomicileFallback that keeps the words of one character
DomicileFallbackAllWords(combined_text) ==
    LET clean_val == Strip(RemoveChars(combined_text,
                               Digits \cup {"*", "<", ":", ";", ",", "."}))
        jp == {i \in 1..Len(clean_val) : clean_val[i] \in JpLabelChars}
        cut == IF jp = {} THEN clean_val
               ELSE Strip(SubSeq(clean_val, 1, SetMin(jp) - 1))
    IN  Join(SplitWs(cut), <<" ">>)

\* lines 294-303: the value stored, <<>> when none is
DomicileFallback(combined_text) ==
    LET clean_val == Strip(RemoveChars(combined_text,
                               Digits \cup {"*", "<", ":", ";", ",", "."}))
        jp == {i \in 1..Len(clean_val) : clean_val[i] \in JpLabelChars}
        cut == IF jp = {} THEN clean_val
               ELSE Strip(SubSeq(clean_val, 1, SetMin(jp) - 1))
        valid_parts == SelectSeq(SplitWs(cut), LAMBDA w : Len(w) > 1)
    IN  Join(valid_parts, <<" ">>)

RECURSIVE RemoveSlashWords(_)
\* re.sub(r'/[a-zA-Z]*', '', s)
RemoveSlashWords(s) ==
    IF s = <<>> THEN <<>>
    ELSE IF Head(s) = "/"
         THEN LET rest == Tail(s)
                  stops == {j \in 1..Len(rest) :
                               rest[j] \notin UpperLetters \cup LowerLetters}
                  n == IF stops = {} THEN Len(rest) ELSE SetMin(stops) - 1
              IN  RemoveSlashWords(SubSeq(rest, n + 1, Len(rest)))
         ELSE <<Head(s)>> \o RemoveSlashWords(Tail(s))

\* lines 311-313
CleanName(combined_text) ==
    LET clean_val == Strip(RemoveChars(combined_text,
                               Digits \cup {"<", ":", ";", ",", "."}))
    IN  Strip(RemoveSlashWords(clean_val))

\* lines 243-259: the text read below the anchor
CombinedText(anns, base, key) ==
    Strip(CombineLoop(SortTopLeft(RoiCandidates(anns, base, key)), 1, key, <<>>))

\* lines 262-314: the value stored under key for the text read, <<>> when
\* none is; pref is the prefecture the loop of line 284 stops at
CleanValue(key, combined_text, pref) ==
    IF key \in {"birth_date", "expiry_date", "issue_date"}
    THEN parse_date_from_text(combined_text)
    ELSE IF key = "sex"
    THEN LET m == SexMatch(Upper(combined_text)) IN IF m # None THEN m ELSE <<>>
    ELSE IF key = "nationality"
    THEN IF \/ Contains(<<"J", "A", "P", "A", "N">>, Upper(combined_text))
            \/ Contains(<<"J", "P", "N">>, Upper(combined_text))
         THEN <<"J", "P", "N">> ELSE <<>>
    ELSE IF key = "domicile"
    THEN IF PrefecturesIn(combined_text) # {} THEN pref
         ELSE DomicileFallback(combined_text)
    ELSE IF key = "passport_no"
    THEN LET m == PassportSearch(combined_text)
         IN  IF m.found THEN m.letters \o RemoveCh(m.space, " ") \o m.digits
             ELSE <<>>
    ELSE CleanName(combined_text)

\* no annotation
NoAnn == [description |-> None, vertices |-> <<>>]

\* the anchor is the first matched token of the page
BaseAnnFirstMatch(anns, tgt) ==
    LET labels_found == MatchedLabels(anns, tgt)
    IN  IF labels_found = <<>> THEN NoAnn ELSE labels_found[1]

\* lines 189-196: the anchor of a target, NoAnn without a matched label
BaseAnn(anns, tgt) ==
    LET labels_found == MatchedLabels(anns, tgt)
    IN  IF labels_found = <<>> THEN NoAnn ELSE SortTopLeft(labels_found)[1]

\* the text read for the domicile target (<<>> without anchor or candidate)
DomicileText(anns) ==
    LET tgt == targets[8]
        base == BaseAnn(anns, tgt)
    IN  IF base = NoAnn THEN <<>> ELSE CombinedText(anns, base, tgt.key)

\* lines 189-314 for one target: the dict after it
VizTarget(d, anns, tgt, pref) ==
    LET base == BaseAnn(anns, tgt)
    IN  IF base = NoAnn THEN d
        ELSE LET roi_candidates == SortTopLeft(RoiCandidates(anns, base, tgt.key))
                 combined_text == Strip(CombineLoop(roi_candidates, 1, tgt.key, <<>>))
                 val == CleanValue(tgt.key, combined_text, pref)
             IN  IF roi_candidates # <<>> /\ val # <<>>
                 THEN Put(d, tgt.key, val)
                 ELSE d

RECURSIVE VizTargets(_, _, _, _)
\* lines 189-314: the loop over the targets from the k-th on
VizTargets(d, anns, k, pref) ==
    IF k > Len(targets) THEN d
    ELSE VizTargets(VizTarget(d, anns, targets[k], pref), anns, k + 1, pref)

\* lines 317-321
PassportFallback(d, text) ==
    IF ~Truthy(Get(d, "passport_no")) /\ Truthy(text)
    THEN LET m == PassportSearch(text)
         IN  IF m.found THEN Put(d, "passport_no", m.letters \o m.digits) ELSE d
    ELSE d

\* parse_viz_layout as a whole, the loop over JAPAN_PREFECTURES stopping
\* at pref
parse_viz_layout(anns, text, pref) ==
    PassportFallback(VizTargets(EmptyDict, anns, 1, pref), text)

----------------------------------------------------------------------------
(* normalize_text, merge_val, parse_response *)

\* unicodedata.normalize('NFKC', c) of the characters of the model that
\* become one other character: the full-width letters, the ideographic space
Nfkc ==
    ("uFF21" :> "A") @@ ("uFF2B" :> "K") @@ ("uFF2E" :> "N") @@ ("uFF34" :> "T") @@
    ("uFF22" :> "B") @@ ("uFF2F" :> "O") @@ ("uFF39" :> "Y") @@
    ("u3000" :> " ")

NfkcCh(c) == IF c \in DOMAIN Nfkc THEN Nfkc[c] ELSE c

\* the letters and digits that have a canonical composite with U+0301, the
\* combining acute accent, and that composite
AcuteComposites ==
    ("A" :> "u00C1") @@ ("C" :> "u0106") @@ ("E" :> "u00C9") @@ ("G" :> "u01F4") @@
    ("I" :> "u00CD") @@ ("K" :> "u1E30") @@ ("L" :> "u0139") @@ ("M" :> "u1E3E") @@
    ("N" :> "u0143") @@ ("O" :> "u00D3") @@ ("P" :> "u1E54") @@ ("R" :> "u0154") @@
    ("S" :> "u015A") @@ ("U" :> "u00DA") @@ ("W" :> "u1E82") @@ ("Y" :> "u00DD") @@
    ("Z" :> "u0179") @@ ("a" :> "u00E1") @@ ("c" :> "u0107") @@ ("e" :> "u00E9") @@
    ("g" :> "u01F5") @@ ("i" :> "u00ED") @@ ("k" :> "u1E31") @@ ("l" :> "u013A") @@
    ("m" :> "u1E3F") @@ ("n" :> "u0144") @@ ("o" :> "u00F3") @@ ("p" :> "u1E55") @@
    ("r" :> "u0155") @@ ("s" :> "u015B") @@ ("u" :> "u00FA") @@ ("w" :> "u1E83") @@
    ("y" :> "u00FD") @@ ("z" :> "u017A")

\* the decomposition of one character: U+00B4, the acute accent, is a space
\* and U+0301; a composite is its letter and U+0301
NfkcDecomposeCh(c) ==
    IF c = "u00B4" THEN <<" ", "u0301">>
    ELSE IF \E b \in DOMAIN AcuteComposites : AcuteComposites[b] = c
         THEN <<CHOOSE b \in DOMAIN AcuteComposites : AcuteComposites[b] = c, "u0301">>
         ELSE <<NfkcCh(c)>>

RECURSIVE NfkcDecompose(_)
NfkcDecompose(text) ==
    IF text = <<>> THEN <<>>
    ELSE NfkcDecomposeCh(Head(text)) \o NfkcDecompose(Tail(text))

RECURSIVE NfkcCompose(_, _)
\* the canonical composition: U+0301 joins the character before it when the
\* two have a composite
NfkcCompose(s, acc) ==
    IF s = <<>> THEN acc
    ELSE IF /\ Head(s) = "u0301"
            /\ acc # <<>>
            /\ acc[Len(acc)] \in DOMAIN AcuteComposites
         THEN NfkcCompose(Tail(s), SubSeq(acc, 1, Len(acc) - 1)
                                       \o <<AcuteComposites[acc[Len(acc)]]>>)
         ELSE NfkcCompose(Tail(s), Append(acc, Head(s)))

\* unicodedata.normalize('NFKC', text)
NfkcNormalize(text) == NfkcCompose(NfkcDecompose(text), <<>>)

\* lines 109-116
normalize_text(text) ==
    IF ~Truthy(text) THEN text
    ELSE RemoveCh(Strip(NfkcNormalize(text)), " ")

\* merge_val without its default
merge_val_no_default(primary, secondary, default) ==
    IF Truthy(primary) THEN primary
    ELSE IF Truthy(secondary) THEN secondary
    ELSE <<>>

\* merge_val that hands back its second argument whatever the first is
merge_val_secondary(primary, secondary, default) == secondary

\* lines 119-126
merge_val(primary, secondary, default) ==
    IF Truthy(primary) THEN primary
    ELSE IF Truthy(secondary) THEN secondary
    ELSE default

\* lines 92-102: each merged key with the source merge_val gets first and
\* its default
MergeTable ==
    << [key |-> "passport_no", primary |-> "viz", default |-> <<>>],
       [key |-> "birth_date",  primary |-> "viz", default |-> <<>>],
       [key |-> "expiry_date", primary |-> "viz", default |-> <<>>],
       [key |-> "issue_date",  primary |-> "viz", default |-> <<>>],
       [key |-> "sex",         primary |-> "viz", default |-> <<>>],
       [key |-> "nationality", primary |-> "viz", default |-> <<"J", "P", "N">>],
       [key |-> "domicile",    primary |-> "viz", default |-> <<>>],
       [key |-> "surname",     primary |-> "mrz", default |-> <<>>],
       [key |-> "given_name",  primary |-> "mrz", default |-> <<>>] >>

MergedKeys == {MergeTable[i].key : i \in 1..Len(MergeTable)}

MergeRow(key) == MergeTable[CHOOSE i \in 1..Len(MergeTable) : MergeTable[i].key = key]

\* MergeKey with the spatial value first for every key
MergeKeyVizFirst(key, viz, mrz) ==
    merge_val(Get(viz, key), Get(mrz, key), MergeRow(key).default)

\* the merge_val(...) call of one key of lines 92-102
MergeKey(key, viz, mrz) ==
    LET row == MergeRow(key)
    IN  IF row.primary = "viz"
        THEN merge_val(Get(viz, key), Get(mrz, key), row.default)
        ELSE merge_val(Get(mrz, key), Get(viz, key), row.default)

\* line 104: mrz_data.get('raw_mrz', "")
RawMrzOf(mrz) == IF "raw_mrz" \in DOMAIN mrz THEN mrz["raw_mrz"] ELSE <<>>

\* lines 90-105
BuildRecord(m, mrz) ==
    [k \in MergedKeys \cup {"raw_mrz"} |->
        IF k = "raw_mrz" THEN RawMrzOf(mrz) ELSE normalize_text(m[k])]

\* parse_response as a whole, called in the given year, the loop over
\* JAPAN_PREFECTURES stopping at pref
parse_response(text, anns, year, pref) ==
    LET mrz == parse_mrz_text(text, year)
        viz == parse_viz_layout(anns, text, pref)
    IN  BuildRecord([k \in MergedKeys |-> MergeKey(k, viz, mrz)], mrz)

----------------------------------------------------------------------------
(* The inputs of the model *)

\* A token of the OCR result with the corners of an upright box
Token(desc, x1, y1, x2, y2) ==
    [description |-> desc,
     vertices |-> << [x |-> x1, y |-> y1], [x |-> x2, y |-> y1],
                     [x |-> x2, y |-> y2], [x |-> x1, y |-> y2] >>]

\* the years the calls are made in
NowYears == {2026, 2100}

\* the number of lines of a full text
MaxLines == 2

\* the number of label groups on a page
MaxGroups == 2

\* the lines a full text is made of
LinePool ==
    << <<"P", "<", "J", "P", "N", "T", "A", "N", "A", "K", "A", "<", "<", "T", "A", "R", "O", "<", "<", "<", "<">>,
       <<"p", "(", "j", "p", "n", " ", "y", "a", "m", "a", "d", "a", "(", "(", "h", "a", "n", "a", "k", "o", "(", "m", "a", "r", "i", "(", "(">>,
       <<"T", "Z", "1", "2", "3", "4", "5", "6", "7", "8", "J", "P", "N", "8", "O", "0", "1", "0", "1", "1", "M", "3", "O", "0", "1", "0", "1", "1", "<", "<", "0", "4">>,
       <<"T", "Z", "1", "2", "3", "4", "5", "6", "7", "8", "J", "P", "N", "9", "9", "1", "3", "0", "1", "5", "F", "2", "8", "X", "3", "0", "1", "1", "<", "<", "0", "4">>,
       <<"A", "B", "1", "2", "3", "4", "5", "6", "7", "1", "J", "P", "N", "2", "5", "0", "1", "0", "1", "1">>,
       <<"P", "a", "s", "s", "p", "o", "r", "t", " ", "N", "o", ".", " ", "A", "B", " ", "7", "6", "5", "4", "3", "2", "1">> >>

RECURSIVE SeqsUpTo(_, _)
\* the sequences of at most n elements of S
SeqsUpTo(S, n) ==
    IF n = 0 THEN {<<>>}
    ELSE LET shorter == SeqsUpTo(S, n - 1)
         IN  shorter \cup {Append(q, x) : q \in {r \in shorter : Len(r) = n - 1}, x \in S}

\* the increasing sequences of at most n of the indices 1..m
Picks(m, n) ==
    {r \in SeqsUpTo(1..m, n) : \A i \in 1..(Len(r) - 1) : r[i] < r[i + 1]}

\* the full texts: at most MaxLines lines of the pool, in the order of the
\* pool, joined by line breaks
FullTexts ==
    {Join([i \in 1..Len(q) |-> LinePool[q[i]]], <<"\n">>) :
        q \in Picks(Len(LinePool), MaxLines)}

\* the label groups of a page: a label and what is printed below it
GroupPool ==
    << << Token(<<"S", "u", "r", "n", "a", "m", "e">>, 10, 10, 40, 14),
          Token(<<"uFF34", "uFF21", "uFF2E", "uFF21", "uFF2B", "uFF21", "X">>, 10, 16, 45, 20) >>,
       << Token(<<"G", "i", "v", "e", "n">>, 60, 10, 80, 14),
          Token(<<"J", "I", "R", "O">>, 60, 16, 80, 20),
          Token(<<"K">>, 84, 16, 88, 20) >>,
       << Token(<<"P", "a", "s", "s", "p", "o", "r", "t">>, 110, 10, 140, 14),
          Token(<<"M", "K">>, 110, 16, 118, 20),
          Token(<<"7", "6", "5", "4", "3", "2", "1">>, 120, 16, 150, 20) >>,
       << Token(<<"B", "i", "r", "t", "h">>, 10, 30, 30, 34),
          Token(<<"1", "3">>, 10, 36, 16, 40),
          Token(<<"F", "E", "B">>, 18, 36, 28, 40),
          Token(<<"2", "0", "2", "0">>, 30, 36, 42, 40) >>,
       << Token(<<"S", "e", "x">>, 60, 30, 70, 34),
          Token(<<"F">>, 60, 36, 63, 40) >>,
       << Token(<<"E", "x", "p", "i", "r", "y">>, 110, 30, 130, 34),
          Token(<<"1", "5", "S", "E", "P">>, 110, 36, 125, 40),
          Token(<<"2", "0", "2", "8">>, 127, 36, 140, 40) >>,
       << Token(<<"D", "o", "m", "i", "c", "i", "l", "e">>, 10, 50, 40, 54),
          Token(<<"K", "Y", "O", "T", "O">>, 10, 56, 30, 60),
          Token(<<"N", "A", "R", "A">>, 32, 56, 48, 60) >>,
       << Token(<<"N", "a", "t", "i", "o", "n", "a", "l", "i", "t", "y">>, 60, 50, 95, 54),
          Token(<<"J", "A", "P", "A", "N">>, 60, 56, 80, 60) >> >>

RECURSIVE Flatten(_)
Flatten(qq) == IF qq = <<>> THEN <<>> ELSE Head(qq) \o Flatten(Tail(qq))

\* the pages: at most MaxGroups groups of the pool, in the order of the pool
Pages ==
    {Flatten([i \in 1..Len(q) |-> GroupPool[q[i]]]) :
        q \in Picks(Len(GroupPool), MaxGroups)}

----------------------------------------------------------------------------
(* parse_response, step by step *)

Idle == <<>>

\* the state a call of parse_response starts in
InitResponse(text, anns, year) ==
    /\ pc = "start"
    /\ now_year = year
    /\ full_text = text
    /\ annotations = anns
    /\ line1 = None
    /\ line2 = None
    /\ l2fix = None
    /\ mrz_data = EmptyDict
    /\ viz_data = EmptyDict
    /\ merged = EmptyDict
    /\ data = EmptyDict
    /\ raised = ""
    /\ arg = Idle
    /\ ret = Idle

Init ==
    \E text \in FullTexts, anns \in Pages, year \in NowYears :
        InitResponse(text, anns, year)

\* parse_mrz_text, lines 362-431: the pair of lines is selected
SelectMrzLines ==
    /\ pc = "start"
    /\ LET sel == SelectLines(full_text)
       IN  line1' = sel.line1 /\ line2' = sel.line2
    /\ pc' = "selected"
    /\ UNCHANGED <<now_year, full_text, annotations, l2fix, mrz_data, viz_data,
                   merged, data, raised, arg, ret>>

\* parse_mrz_text, line 433 false: no pair, the empty dict is returned
NoMrz ==
    /\ pc = "selected"
    /\ ~(Truthy(line1) /\ Truthy(line2))
    /\ mrz_data' = EmptyDict
    /\ pc' = "mrz_done"
    /\ UNCHANGED <<now_year, full_text, annotations, line1, line2, l2fix, viz_data,
                   merged, data, raised, arg, ret>>

\* parse_mrz_text, lines 433-447: raw_mrz is stored, then line 2 corrected
CorrectMrz ==
    /\ pc = "selected"
    /\ Truthy(line1) /\ Truthy(line2)
    /\ mrz_data' = Put(EmptyDict, "raw_mrz", RawMrz(line1, line2))
    /\ l2fix' = CorrectLine2(line2)
    /\ pc' = "corrected"
    /\ UNCHANGED <<now_year, full_text, annotations, line1, line2, viz_data,
                   merged, data, raised, arg, ret>>

\* parse_mrz_text, lines 450-501
DecodeMrzLine1 ==
    /\ pc = "corrected"
    /\ mrz_data' = DecodeLine1(mrz_data, line1)
    /\ pc' = "line1_done"
    /\ UNCHANGED <<now_year, full_text, annotations, line1, line2, l2fix, viz_data,
                   merged, data, raised, arg, ret>>

\* parse_mrz_text, lines 503-519
DecodeMrzLine2 ==
    /\ pc = "line1_done"
    /\ LET r == DecodeLine2(mrz_data, l2fix, now_year)
       IN  /\ mrz_data' = r.d
           /\ raised' = r.exc
           /\ pc' = IF r.exc = "" THEN "mrz_done" ELSE "aborted"
    /\ UNCHANGED <<now_year, full_text, annotations, line1, line2, l2fix, viz_data,
                   merged, data, arg, ret>>

\* the prefectures the loop of line 284 can stop at (None: the loop finds none)
PrefChoices(anns) ==
    LET found == PrefecturesIn(DomicileText(anns))
    IN  IF found = {} THEN {None} ELSE found

\* parse_response, line 82
VizLayout ==
    /\ pc = "mrz_done"
    /\ \E pref \in PrefChoices(annotations) :
           viz_data' = parse_viz_layout(annotations, full_text, pref)
    /\ pc' = "viz_done"
    /\ UNCHANGED <<now_year, full_text, annotations, line1, line2, l2fix, mrz_data,
                   merged, data, raised, arg, ret>>

\* parse_response, lines 90-107
Merge ==
    /\ pc = "viz_done"
    /\ merged' = [k \in MergedKeys |-> MergeKey(k, viz_data, mrz_data)]
    /\ data' = BuildRecord(merged', mrz_data)
    /\ pc' = "done"
    /\ UNCHANGED <<now_year, full_text, annotations, line1, line2, l2fix, mrz_data,
                   viz_data, raised, arg, ret>>

Next ==
    \/ SelectMrzLines
    \/ NoMrz
    \/ CorrectMrz
    \/ DecodeMrzLine1
    \/ DecodeMrzLine2
    \/ VizLayout
    \/ Merge

Spec == Init /\ [][Next]_vars

----------------------------------------------------------------------------
(* parse_mrz_text on the variants of one MRZ block *)

\* a line 2 the variants are made from
Line2Base ==
    <<"T", "Z", "1", "2", "3", "4", "5", "6", "7", "8", "J", "P", "N", "8", "0", "0", "1", "0", "1", "1", "M", "3", "0", "0", "1", "0", "1", "1", "<", "<", "0", "4">>

\* the lengths a line 2 is cut to
Line2Lengths == {11, 19, 20, 21, 25, 27, 32}

\* the characters put into a line 2
Line2Chars == {"O", "I", "D", "S", "B", "Z", "X", "<"}

\* s with the character at offset p (0-based) replaced by c
WithCharAt(s, p, c) == [i \in 1..Len(s) |-> IF i = p + 1 THEN c ELSE s[i]]

\* the variants of Line2Base: one character replaced, then cut
Line2Variants ==
    {SubSeq(WithCharAt(Line2Base, p, c), 1, n) :
        p \in 0..(Len(Line2Base) - 1), c \in Line2Chars, n \in Line2Lengths}

\* a line 1 above a variant of line 2, or a line 2 alone
InitMrz ==
    \E year \in NowYears :
        \/ \E l2 \in Line2Variants :
               InitResponse(LinePool[1] \o <<"\n">> \o l2, <<>>, year)
        \/ InitResponse(Line2Base, <<>>, year)

SpecMrz == InitMrz /\ [][Next]_vars

----------------------------------------------------------------------------
(* convert_yymmdd_to_fmt called on its own *)

\* the years convert_yymmdd_to_fmt is called in
ConvertYears == {1999, 2000, 2026, 2099, 2100}

\* six-digit strings: every year, the months 00-13, 19, 20, 99, six days
SixDigitStrings ==
    {<<y1, y2, m[1], m[2], d[1], d[2]>> :
        y1 \in Digits, y2 \in Digits,
        m \in {<<"0", "0">>, <<"0", "1">>, <<"0", "9">>, <<"1", "0">>,
               <<"1", "2">>, <<"1", "3">>, <<"1", "9">>, <<"2", "0">>,
               <<"9", "9">>},
        d \in {<<"0", "0">>, <<"0", "1">>, <<"0", "9">>, <<"3", "1">>,
               <<"9", "9">>}}

\* arguments that are no six-digit string
OtherStrings ==
    { <<>>,
      <<"9", "9", "0", "1", "0">>,
      <<"9", "9", "0", "1", "0", "1", "1">>,
      <<"9", "9", " ", "1", "0", "1">>,
      <<"9", "9", "0", "1", "O", "1">>,
      <<"X", "9", "0", "1", "0", "1">>,
      <<"9", "9", "0", "1", "0", " ">>,
      <<"2", "8", "0", "9">> }

InitHelper(a, year, at) ==
    /\ pc = at
    /\ now_year = year
    /\ arg = a
    /\ ret = Idle
    /\ full_text = <<>>
    /\ annotations = <<>>
    /\ line1 = None
    /\ line2 = None
    /\ l2fix = None
    /\ mrz_data = EmptyDict
    /\ viz_data = EmptyDict
    /\ merged = EmptyDict
    /\ data = EmptyDict
    /\ raised = ""

InitConvert ==
    \E s \in SixDigitStrings \cup OtherStrings, f \in BOOLEAN, year \in ConvertYears :
        InitHelper([yymmdd |-> s, future |-> f], year, "call_convert")

\* a call of convert_yymmdd_to_fmt and its return
ConvertCall ==
    /\ pc = "call_convert"
    /\ ret' = convert_yymmdd_to_fmt(arg.yymmdd, arg.future, now_year)
    /\ pc' = "returned"
    /\ UNCHANGED <<now_year, full_text, annotations, line1, line2, l2fix, mrz_data,
                   viz_data, merged, data, raised, arg>>

SpecConvert == InitConvert /\ [][ConvertCall]_vars

----------------------------------------------------------------------------
(* parse_date_from_text called on its own *)

\* the number of words of a free text
MaxWords == 3

\* the words of a free text
DateWords ==
    { <<"F", "E", "B">>,
      <<"d", "e", "c">>,
      <<"2", "0", "2", "0">>,
      <<"1", "9", "9", "9">>,
      <<"1", "3">>,
      <<"5">>,
      <<"1", "2", "0", "2", "0">> }

\* what stands between two words
DateSeparators == {<<>>, <<" ">>, <<"-">>}

RECURSIVE FreeTexts(_)
\* the texts of at most n words
FreeTexts(n) ==
    IF n = 0 THEN {<<>>}
    ELSE IF n = 1 THEN {<<>>} \cup DateWords
    ELSE LET shorter == FreeTexts(n - 1)
         IN  shorter \cup {t \o sep \o w :
                              t \in shorter \ {<<>>}, sep \in DateSeparators, w \in DateWords}

\* the days of a laid-out date: one or two digits
LayoutDays ==
    {<<d>> : d \in Digits} \cup {<<d1, d2>> : d1 \in {"0", "1", "3"}, d2 \in Digits}

\* the years of a laid-out date
LayoutYears ==
    { <<"1", "9", "0", "0">>,
      <<"1", "9", "9", "9">>,
      <<"2", "0", "0", "0">>,
      <<"2", "0", "2", "0">>,
      <<"2", "0", "9", "9">> }

Layouts == {"D M Y", "DM Y", "M D Y"}

\* the text of a date in one of the layouts
LayoutText(layout, mon, day, year) ==
    IF layout = "D M Y" THEN day \o <<" ">> \o mon \o <<" ">> \o year
    ELSE IF layout = "DM Y" THEN day \o mon \o <<" ">> \o year
    ELSE mon \o <<" ">> \o day \o <<" ">> \o year

InitDate ==
    \/ \E t \in FreeTexts(MaxWords) :
           InitHelper([text |-> t, layout |-> "free", k |-> 0,
                       day |-> <<>>, year |-> <<>>], 2026, "call_date")
    \/ \E layout \in Layouts, k \in 1..Len(month_map),
          day \in LayoutDays, year \in LayoutYears :
           InitHelper([text |-> LayoutText(layout, month_map[k].mon, day, year),
                       layout |-> layout, k |-> k, day |-> day, year |-> year],
                      2026, "call_date")

\* a call of parse_date_from_text and its return
DateCall ==
    /\ pc = "call_date"
    /\ ret' = parse_date_from_text(arg.text)
    /\ pc' = "returned"
    /\ UNCHANGED <<now_year, full_text, annotations, line1, line2, l2fix, mrz_data,
                   viz_data, merged, data, raised, arg>>

SpecDate == InitDate /\ [][DateCall]_vars

----------------------------------------------------------------------------
(* parse_response on a label with a row of words below it *)

\* the number of words below the label
MaxValues == 3

\* the label of a page: it stands at (40, 10), 30 wide and 4 high
VizLabels ==
    { Token(<<"D", "o", "m", "i", "c", "i", "l", "e">>, 40, 10, 70, 14),
      Token(<<"S", "u", "r", "n", "a", "m", "e">>, 40, 10, 70, 14) }

\* the words below the label: their top is the bottom of the label or one
\* below it; the first and the fourth have the same top left corner
ValuePool ==
    << Token(<<"O", "K", "I", "N", "A", "W", "A">>, 40, 14, 60, 18),
       Token(<<"o", "f">>, 62, 14, 68, 18),
       Token(<<"u6240", "u6301">>, 70, 15, 80, 19),
       Token(<<"k", "y", "o", "t", "o">>, 40, 14, 55, 18),
       Token(<<"T", "0", "K", "Y", "O">>, 82, 14, 95, 18),
       Token(<<"x">>, 97, 14, 99, 18),
       Token(<<"A", "B", "u767A", "C", "D">>, 101, 15, 115, 19),
       Token(<<"T", "A", "N", "A", "K", "A">>, 40, 15, 60, 19),
       Token(<<"1", "2", ".", "<">>, 117, 14, 125, 18) >>

\* the pages: the label, then at most MaxValues different words in any order
VizPages ==
    {<<lbl>> \o [i \in 1..Len(q) |-> ValuePool[q[i]]] :
        lbl \in VizLabels,
        q \in {r \in SeqsUpTo(1..Len(ValuePool), MaxValues) :
                  \A i, j \in 1..Len(r) : i # j => r[i] # r[j]}}

\* the pages of a label and one word directly below it: the label is w wide
\* and h high, the word starts at the left edge of the label, is vw wide,
\* and its top is dy below the bottom of the label
BelowPages ==
    {<< Token(<<"S", "u", "r", "n", "a", "m", "e">>, 40, 10, 40 + w, 10 + h),
        Token(<<"T", "A", "N", "A", "K", "A">>,
              40, 10 + h + dy, 40 + vw, 14 + h + dy) >> :
        w \in {1, 4, 30}, h \in {1, 4, 30}, vw \in {1, 4}, dy \in {0, 1, 2}}

\* a page without MRZ block, or a page of BelowPages with one
InitViz ==
    \/ \E anns \in VizPages \cup BelowPages :
           InitResponse(<<>>, anns, 2026)
    \/ \E anns \in BelowPages :
           InitResponse(LinePool[1] \o <<"\n">> \o LinePool[3], anns, 2026)

SpecViz == InitViz /\ [][Next]_vars

----------------------------------------------------------------------------
(* normalize_text called on its own, and again on its result *)

\* the length of a text normalize_text is called on
MaxNormLen == 3

\* the characters of such a text: a letter, a space, a tab, a full-width
\* letter, the acute accent, the combining acute accent, the ideographic
\* space, a letter with an acute accent
NormChars == {"A", " ", "\t", "uFF21", "u00B4", "u0301", "u3000", "u00C1"}

InitNormalize ==
    \E t \in SeqsUpTo(NormChars, MaxNormLen) :
        InitHelper([text |-> t], 2026, "call_normalize")

\* a call of normalize_text and its return
NormalizeCall ==
    /\ pc = "call_normalize"
    /\ ret' = normalize_text(arg.text)
    /\ pc' = "normalized"
    /\ UNCHANGED <<now_year, full_text, annotations, line1, line2, l2fix, mrz_data,
                   viz_data, merged, data, raised, arg>>

\* a call of normalize_text on what the first call returned
NormalizeAgain ==
    /\ pc = "normalized"
    /\ arg' = [text |-> ret]
    /\ ret' = normalize_text(ret)
    /\ pc' = "normalized_again"
    /\ UNCHANGED <<now_year, full_text, annotations, line1, line2, l2fix, mrz_data,
                   viz_data, merged, data, raised>>

NextNormalize == NormalizeCall \/ NormalizeAgain

SpecNormalize == InitNormalize /\ [][NextNormalize]_vars

----------------------------------------------------------------------------
(* two calls of parse_response at the same time *)

\* the pages of two calls at the same time
CallPages ==
    { GroupPool[7], GroupPool[1] \o GroupPool[4], GroupPool[3] }

\* the full texts of two calls at the same time
CallTexts ==
    { <<>>,
      LinePool[1] \o <<"\n">> \o LinePool[5],
      LinePool[2] \o <<"\n">> \o LinePool[3] }

\* a call's names read from the frame of another call
FrameOfOtherCall(own, other) == other

\* lines 75-76, 79, 82: full_text, annotations, mrz_data and viz_data are
\* names of the call's own frame, whatever another call has bound them to
Frame(own, other) == own

\* the frame of the call the variables hold
ThisFrame ==
    [full_text |-> full_text, annotations |-> annotations,
     mrz_data |-> mrz_data, viz_data |-> viz_data]

\* the frame of the call arg holds
OtherFrame ==
    [full_text |-> arg.full_text, annotations |-> arg.annotations,
     mrz_data |-> arg.mrz_data, viz_data |-> arg.viz_data]

\* one call in the variables, another call on another page in arg
InitTwoCalls ==
    \E text \in CallTexts, anns \in CallPages, year \in NowYears,
       other_text \in CallTexts, other_anns \in CallPages :
        /\ other_anns # anns
        /\ pc = "start"
        /\ now_year = year
        /\ full_text = text
        /\ annotations = anns
        /\ line1 = None
        /\ line2 = None
        /\ l2fix = None
        /\ mrz_data = EmptyDict
        /\ viz_data = EmptyDict
        /\ merged = EmptyDict
        /\ data = EmptyDict
        /\ raised = ""
        /\ arg = [pc |-> "start", full_text |-> other_text,
                  annotations |-> other_anns, mrz_data |-> EmptyDict,
                  viz_data |-> EmptyDict, data |-> EmptyDict]
        /\ ret = Idle

\* parse_response, line 79, in the other call
OtherMrz ==
    /\ arg.pc = "start"
    /\ LET f == Frame(OtherFrame, ThisFrame)
       IN  arg' = [arg EXCEPT !.mrz_data = parse_mrz_text(f.full_text, now_year),
                              !.pc = "mrz_done"]
    /\ UNCHANGED <<pc, now_year, full_text, annotations, line1, line2, l2fix,
                   mrz_data, viz_data, merged, data, raised, ret>>

\* parse_response, line 82, in the other call
OtherViz ==
    /\ arg.pc = "mrz_done"
    /\ LET f == Frame(OtherFrame, ThisFrame)
       IN  \E pref \in PrefChoices(f.annotations) :
               arg' = [arg EXCEPT
                          !.viz_data = parse_viz_layout(f.annotations, f.full_text, pref),
                          !.pc = "viz_done"]
    /\ UNCHANGED <<pc, now_year, full_text, annotations, line1, line2, l2fix,
                   mrz_data, viz_data, merged, data, raised, ret>>

\* parse_response, lines 90-107, in the other call
OtherMerge ==
    /\ arg.pc = "viz_done"
    /\ LET f == Frame(OtherFrame, ThisFrame)
       IN  arg' = [arg EXCEPT
                      !.data = BuildRecord([k \in MergedKeys |->
                                               MergeKey(k, f.viz_data, f.mrz_data)],
                                           f.mrz_data),
                      !.pc = "done"]
    /\ UNCHANGED <<pc, now_year, full_text, annotations, line1, line2, l2fix,
                   mrz_data, viz_data, merged, data, raised, ret>>

NextTwoCalls ==
    \/ Next
    \/ OtherMrz
    \/ OtherViz
    \/ OtherMerge

SpecTwoCalls == InitTwoCalls /\ [][NextTwoCalls]_vars

----------------------------------------------------------------------------
(* ensure_excel_columns (src/excel_utils.py) *)

\* lines 41-45: the headers of the table, in their order
expected_headers ==
    <<
       <<"u767B", "u9332", "u65E5", "u6642">>,
       <<"u65C5", "u5238", "u756A", "u53F7">>,
       <<"u6C0F", "u540D", "(", "u59D3", ")">>,
       <<"u6C0F", "u540D", "(", "u540D", ")">>,
       <<"u751F", "u5E74", "u6708", "u65E5">>,
       <<"u6027", "u5225">>,
       <<"u56FD", "u7C4D">>,
       <<"u672C", "u7C4D">>,
       <<"u767A", "u884C", "u5E74", "u6708", "u65E5">>,
       <<"u6709", "u52B9", "u671F", "u9593", "u6E80", "u4E86", "u65E5">>,
       <<"u4F4F", "u6240", "(", "u624B", "u5165", "u529B", ")">>,
       <<"u5099", "u8003">>,
       <<"u753B", "u50CF", "u30D5", "u30A1", "u30A4", "u30EB", "u540D">>
    >>

\* what pd.read_excel gives for a cell with no value
NaN == <<"<NaN>">>

\* lines 29-65. A file is a record: whether it exists, whether pandas can
\* read it, the header row and the rows below it (a row maps each column to
\* its cell, None for a cell with no value).
ensure_excel_columns(file) ==
    LET Range(s) == {s[k] : k \in 1..Len(s)}
        \* line 38: read_excel, cells with no value become NaN
        df == [columns |-> file.columns,
               rows |-> [i \in 1..Len(file.rows) |->
                           [c \in Range(file.columns) |->
                               IF file.rows[i][c] = None THEN NaN
                               ELSE file.rows[i][c]]]]
        \* lines 49-52: the headers the frame lacks, in the order of the loop
        missing == SelectSeq(expected_headers, LAMBDA h : h \notin Range(df.columns))
        changed == missing # <<>>
        \* line 51: df[col] = "" appends the column, "" in every row
        added == [columns |-> df.columns \o missing,
                  rows |-> [i \in 1..Len(df.rows) |->
                              [c \in Range(df.columns \o missing) |->
                                  IF c \in Range(df.columns) THEN df.rows[i][c]
                                  ELSE <<>>]]]
        \* line 61: reindex keeps the columns it is given, in that order, NaN
        \* in a column the frame does not have
        new_df == [columns |-> expected_headers,
                   rows |-> [i \in 1..Len(added.rows) |->
                               [c \in Range(expected_headers) |->
                                   IF c \in Range(added.columns) THEN added.rows[i][c]
                                   ELSE NaN]]]
        \* line 62: to_excel, NaN is written as a cell with no value
        written == [file EXCEPT
                       !.columns = new_df.columns,
                       !.rows = [i \in 1..Len(new_df.rows) |->
                                   [c \in Range(new_df.columns) |->
                                       IF new_df.rows[i][c] = NaN THEN None
                                       ELSE new_df.rows[i][c]]]]
    IN  IF ~file.exists THEN file
        ELSE IF ~file.readable THEN file
        ELSE IF changed \/ added.columns # expected_headers THEN written
        ELSE file

\* the number of rows of a table
MaxRows == 2

\* the number of columns of a short header row
MaxCols == 3

\* a column that is none of the headers
Memo == <<"M", "e", "m", "o">>

\* the header rows: short ones, the headers before the two columns of the
\* docstring were added, the headers in order, out of order, and each with
\* the column Memo
HeaderRows ==
    LET old == SelectSeq(expected_headers,
                         LAMBDA h : h \notin {expected_headers[8], expected_headers[9]})
        swapped == [i \in 1..Len(expected_headers) |->
                       IF i = 2 THEN expected_headers[3]
                       ELSE IF i = 3 THEN expected_headers[2]
                       ELSE expected_headers[i]]
        names == {expected_headers[1], expected_headers[2], expected_headers[8], Memo}
    IN  {q \in SeqsUpTo(names, MaxCols) :
            \A i, j \in 1..Len(q) : i # j => q[i] # q[j]}
        \cup {old, old \o <<Memo>>, expected_headers, swapped,
              expected_headers \o <<Memo>>, <<Memo>> \o expected_headers}

\* the row i of a table with the header row cols: the cell of a column holds
\* the name of the column and the number of the row, no value in column blank
RowOf(cols, i, blank) ==
    [c \in {cols[k] : k \in 1..Len(cols)} |->
        IF c = blank THEN None ELSE Append(c, DigitChar[i + 1])]

\* the files ensure_excel_columns is called on
InitExcel ==
    \E cols \in HeaderRows, n \in 0..MaxRows, state \in {"none", "broken", "ok"} :
        \E blank \in {cols[k] : k \in 1..Len(cols)} \cup {NaN} :
            InitHelper([exists |-> state # "none", readable |-> state = "ok",
                        columns |-> cols,
                        rows |-> [i \in 1..n |-> RowOf(cols, i, blank)]],
                       2026, "call_ensure")

\* a call of ensure_excel_columns: ret is the file after it
EnsureColumns ==
    /\ pc = "call_ensure"
    /\ ret' = ensure_excel_columns(arg)
    /\ pc' = "ensured"
    /\ UNCHANGED <<now_year, full_text, annotations, line1, line2, l2fix, mrz_data,
                   viz_data, merged, data, raised, arg>>

SpecExcel == InitExcel /\ [][EnsureColumns]_vars

----------------------------------------------------------------------------
(* parse_mrz_text on texts of several lines *)

\* the number of lines of a text
MaxPairLines == 3

\* the lines of the texts: a line 1, a line 1 whose P was lost, two lines
\* dense in digits, a line of 20 characters with 11 digits, a line of a
\* label with 7 digits, a short line
PairPool ==
    << LinePool[1],
       <<"<", "J", "P", "N", "S", "A", "T", "O", "<", "<", "H", "A", "N", "A", "<", "<", "<", "<", "<", "<", "<", "<">>,
       LinePool[3],
       LinePool[4],
       LinePool[5],
       LinePool[6],
       <<"J", "A", "P", "A", "N">> >>

\* at most MaxPairLines different lines of the pool, in any order
InitPairing ==
    \E q \in SeqsUpTo(1..Len(PairPool), MaxPairLines) :
        /\ \A i, j \in 1..Len(q) : i # j => q[i] # q[j]
        /\ InitResponse(Join([i \in 1..Len(q) |-> PairPool[q[i]]], <<"\n">>),
                        <<>>, 2026)

SpecPairing == InitPairing /\ [][Next]_vars

----------------------------------------------------------------------------
(* parse_mrz_text on lines of every length and number of digits *)

\* the length of the longest line
MaxSeqLen == 26

\* the length of the shortest line
MinSeqLen == 15

\* a line of n characters, d of them digits, the digits first or last
SeqOf(n, d, digits_first) ==
    [i \in 1..n |->
        IF (digits_first /\ i <= d) \/ (~digits_first /\ i > n - d) THEN "7" ELSE "X"]

\* a line 1 whose P was lost, above a line of n characters with d digits:
\* only the loop of lines 391-420 can select this pair
InitDensity ==
    \E n \in MinSeqLen..MaxSeqLen, digits_first \in BOOLEAN :
        \E d \in 0..n :
            InitResponse(PairPool[2] \o <<"\n">> \o SeqOf(n, d, digits_first),
                         <<>>, 2026)

SpecDensity == InitDensity /\ [][Next]_vars

----------------------------------------------------------------------------
(* parse_mrz_text on the variants of line 1 *)

\* the lines 1 the variants are made from: a long and a short first segment
Line1Bases ==
    { LinePool[1],
      <<"P", "<", "A", "B", "C", "D", "E", "<", "<", "T", "A", "R", "O", "<", "<", "<", "<", "<", "<", "<", "<">> }

\* the characters put into a line 1
Line1Chars == {"<", "X", "J"}

\* the variants of a line 1: one character replaced
Line1Variants ==
    {WithCharAt(l1, p, c) : l1 \in Line1Bases, p \in 0..20, c \in Line1Chars}

\* a variant of line 1 above a line 2, or alone
InitLine1 ==
    \E l1 \in Line1Variants :
        \/ InitResponse(l1 \o <<"\n">> \o Line2Base, <<>>, 2026)
        \/ InitResponse(l1, <<>>, 2026)

SpecLine1 == InitLine1 /\ [][Next]_vars

----------------------------------------------------------------------------
(* parse_viz_layout on tokens at the edges of the region of a label *)

\* the label of the pages: 10 wide, 10 high
RoiAnchor == Token(<<"S", "u", "r", "n", "a", "m", "e">>, 100, 10, 110, 20)

\* the second label of a page
RoiOtherLabel == Token(<<"S", "e", "x">>, 100, 12, 110, 22)

\* the tops of the value: around 10% of the height below the top of the
\* label (11), and around 2.5 heights below its bottom (45)
RoiTops == {10, 11, 12, 30, 44, 45}

\* the left edges of the value: its centre around 8 widths left of the left
\* edge of the label (20) and 5 widths right of its right edge (160)
RoiLefts == {18, 19, 20, 100, 158, 159, 160}

\* the widths of the value: the centre on a whole or on a half pixel
RoiWidths == {2, 3}

\* a label and one value, or two labels and one value
RoiPages ==
    {<<RoiAnchor>> \o more \o <<Token(<<"T", "A", "N", "A", "K", "A">>, x, y, x + w, y + 4)>> :
        x \in RoiLefts, y \in RoiTops, w \in RoiWidths,
        more \in {<<>>, <<RoiOtherLabel>>}}

\* a page without MRZ block, or with one
InitRoi ==
    \E anns \in RoiPages, text \in {<<>>, LinePool[1] \o <<"\n">> \o LinePool[3]} :
        InitResponse(text, anns, 2026)

SpecRoi == InitRoi /\ [][Next]_vars

----------------------------------------------------------------------------
(* parse_viz_layout on pages with several labels of one key *)

\* the number of tokens of a page
MaxAnchorTokens == 4

\* three labels of the surname, two of them at the same height, and a word
\* below each of them, in the region of that label only
AnchorPool ==
    << Token(<<"S", "u", "r", "n", "a", "m", "e">>, 10, 10, 12, 14),
       Token(<<"S", "u", "r", "n", "a", "m", "e">>, 100, 10, 102, 14),
       Token(<<"u59D3">>, 10, 30, 12, 34),
       Token(<<"T", "A", "N", "A", "K", "A">>, 10, 16, 20, 20),
       Token(<<"S", "A", "T", "O">>, 100, 16, 110, 20),
       Token(<<"A", "B", "E">>, 10, 36, 20, 40) >>

\* at most MaxAnchorTokens different tokens of the pool, in any order,
\* without MRZ block; the whole pool in its order with one
InitAnchor ==
    \/ \E q \in SeqsUpTo(1..Len(AnchorPool), MaxAnchorTokens) :
           /\ \A i, j \in 1..Len(q) : i # j => q[i] # q[j]
           /\ InitResponse(<<>>, [i \in 1..Len(q) |-> AnchorPool[q[i]]], 2026)
    \/ InitResponse(LinePool[1] \o <<"\n">> \o LinePool[3], AnchorPool, 2026)

SpecAnchor == InitAnchor /\ [][Next]_vars

----------------------------------------------------------------------------
(* parse_response on pages and texts with and without a passport number *)

\* no label of the passport number, or one of them
PassportLabels ==
    { <<>>,
      << Token(<<"P", "a", "s", "s", "p", "o", "r", "t">>, 10, 10, 40, 14) >>,
      << Token(<<"N", "o">>, 10, 10, 40, 14) >>,
      << Token(<<"u65C5", "u5238", "u756A", "u53F7">>, 10, 10, 40, 14) >> }

\* what stands below the label: nothing, a name, a number in one token, in
\* two tokens, and in one token with a tab after the letters
PassportValues ==
    { <<>>,
      << Token(<<"T", "A", "N", "A", "K", "A">>, 10, 16, 40, 20) >>,
      << Token(<<"T", "K", "1", "2", "3", "4", "5", "6", "7">>, 10, 16, 40, 20) >>,
      << Token(<<"T", "K">>, 10, 16, 20, 20),
         Token(<<"1", "2", "3", "4", "5", "6", "7">>, 22, 16, 40, 20) >>,
      << Token(<<"T", "K", "\t", "1", "2", "3", "4", "5", "6", "7">>, 10, 16, 40, 20) >> }

\* a second line of an MRZ block with a letter and a digit at the head of the
\* number and one digit less in the date of birth
Line2NoPattern ==
    <<"T", "2", "1", "2", "3", "4", "5", "6", "7", "8", "J", "P", "N",
      "8", "0", "0", "1", "0", "1", "M", "3", "0", "0", "1", "0", "1", "1",
      "<", "<", "<", "<">>

\* no text, a text with a number only, an MRZ block whose second line starts
\* with two letters and seven digits, and one without that pattern anywhere
PassportTexts ==
    { <<>>,
      <<"X", "Y", " ", "7", "6", "5", "4", "3", "2", "1">>,
      LinePool[1] \o <<"\n">> \o LinePool[3],
      LinePool[1] \o <<"\n">> \o Line2NoPattern }

InitPassport ==
    \E lab \in PassportLabels, val \in PassportValues, text \in PassportTexts :
        InitResponse(text, lab \o val, 2026)

SpecPassport == InitPassport /\ [][Next]_vars

----------------------------------------------------------------------------
(* parse_response on a domicile written in full-width letters *)

\* the labels of the domicile
WidthLabels ==
    { <<"D", "o", "m", "i", "c", "i", "l", "e">>,
      <<"R", "e", "g", "i", "s", "t", "e", "r", "e", "d">>,
      <<"u672C", "u7C4D">> }

\* the words around the name: none, AB, and AB in full-width letters
WidthNoise == { <<>>, << <<"A", "B">> >>, << <<"uFF21", "uFF22">> >> }

\* TOKYO in half-width and in full-width letters
WidthNames ==
    { <<"T", "O", "K", "Y", "O">>,
      <<"uFF34", "uFF2F", "uFF2B", "uFF39", "uFF2F">> }

\* the label and below it, on one row, the words ws
WidthPage(label, ws) ==
    << Token(label, 10, 10, 40, 14) >> \o
    [i \in 1..Len(ws) |-> Token(ws[i], 10 + 40 * (i - 1), 16, 40 + 40 * (i - 1), 20)]

InitWidth ==
    \E label \in WidthLabels, before \in WidthNoise, name \in WidthNames,
       after \in WidthNoise, text \in {<<>>, LinePool[1] \o <<"\n">> \o LinePool[3]} :
        InitResponse(text, WidthPage(label, before \o <<name>> \o after), 2026)

SpecWidth == InitWidth /\ [][Next]_vars

----------------------------------------------------------------------------
(* parse_response on passports of Japan and of another country *)

\* no label of the nationality, or one of them
NationalityLabels ==
    { <<>>,
      << Token(<<"N", "a", "t", "i", "o", "n", "a", "l", "i", "t", "y">>, 60, 50, 95, 54) >>,
      << Token(<<"u56FD", "u7C4D">>, 60, 50, 95, 54) >> }

\* what stands below the label
NationalityValues ==
    { <<>>,
      << Token(<<"J", "A", "P", "A", "N">>, 60, 56, 80, 60) >>,
      << Token(<<"j", "p", "n">>, 60, 56, 80, 60) >>,
      << Token(<<"U", "S", "A">>, 60, 56, 80, 60) >>,
      << Token(<<"U", "N", "I", "T", "E", "D">>, 60, 56, 80, 60),
         Token(<<"S", "T", "A", "T", "E", "S">>, 82, 56, 95, 60) >> }

\* no text, the MRZ block of a passport of Japan, and one of another country
NationalityTexts ==
    { <<>>,
      LinePool[1] \o <<"\n">> \o Line2Base,
      <<"P", "<", "U", "S", "A", "S", "M", "I", "T", "H", "<", "<", "J", "O", "H", "N", "<", "<", "<", "<", "<">>
          \o <<"\n">> \o
      <<"T", "Z", "1", "2", "3", "4", "5", "6", "7", "8", "U", "S", "A", "8", "0", "0", "1", "0", "1", "1", "M", "3", "0", "0", "1", "0", "1", "1", "<", "<", "0", "4">> }

InitNationality ==
    \E lab \in NationalityLabels, val \in NationalityValues, text \in NationalityTexts :
        InitResponse(text, lab \o val, 2026)

SpecNationality == InitNationality /\ [][Next]_vars

----------------------------------------------------------------------------
(* passport_app.py: the check of the remaining validity in the data tab *)

\* calendar.isleap
IsLeapYear(y) == y % 4 = 0 /\ (y % 100 # 0 \/ y % 400 = 0)

\* the number of days of month m of year y
DaysInMonth(y, m) ==
    IF m = 2 THEN (IF IsLeapYear(y) THEN 29 ELSE 28)
    ELSE IF m \in {4, 6, 9, 11} THEN 30 ELSE 31

RECURSIVE DaysBeforeMonth(_, _)
\* the number of days of year y before month m
DaysBeforeMonth(y, m) ==
    IF m = 1 THEN 0 ELSE DaysBeforeMonth(y, m - 1) + DaysInMonth(y, m - 1)

\* date.toordinal: the number of the day, 1 for 0001-01-01
ToOrdinal(d) ==
    LET y == d.year - 1
    IN  365 * y + (y \div 4) - (y \div 100) + (y \div 400)
            + DaysBeforeMonth(d.year, d.month) + d.day

\* date.max.toordinal(): 9999-12-31
MaxOrdinal == 3652059

\* the texts the directive %m matches: 1[0-2]|0[1-9]|[1-9]
StrpMonth(t) ==
    \/ Len(t) = 1 /\ t[1] \in Digits \ {"0"}
    \/ Len(t) = 2 /\ t[1] = "1" /\ t[2] \in {"0", "1", "2"}
    \/ Len(t) = 2 /\ t[1] = "0" /\ t[2] \in Digits \ {"0"}

\* the texts the directive %d matches: 3[0-1]|[1-2]\d|0[1-9]|[1-9]| [1-9]
StrpDay(t) ==
    \/ Len(t) = 1 /\ t[1] \in Digits \ {"0"}
    \/ Len(t) = 2 /\ t[1] = "3" /\ t[2] \in {"0", "1"}
    \/ Len(t) = 2 /\ t[1] \in {"1", "2"} /\ t[2] \in Digits
    \/ Len(t) = 2 /\ t[1] \in {"0", " "} /\ t[2] \in Digits \ {"0"}

\* what strptime gives when it raises ValueError
NoDate == [year |-> 0, month |-> 0, day |-> 0]

\* datetime.strptime(s, "%Y/%m/%d").date(): the date, NoDate when it raises
\* ValueError (the text does not match the format, or names no day)
StrpTime(s) ==
    LET slashes == {i \in 1..Len(s) : s[i] = "/"}
    IN  IF Cardinality(slashes) # 2 THEN NoDate
        ELSE LET a == SetMin(slashes)
                 b == SetMax(slashes)
                 yy == SubSeq(s, 1, a - 1)
                 mm == SubSeq(s, a + 1, b - 1)
                 dd == SubSeq(s, b + 1, Len(s))
             IN  IF ~(Len(yy) = 4 /\ IsDigitStr(yy) /\ StrpMonth(mm) /\ StrpDay(dd))
                 THEN NoDate
                 ELSE LET y == PyInt(yy)
                          m == PyInt(mm)
                          d == PyInt(dd)
                      IN  IF y >= 1 /\ d <= DaysInMonth(y, m)
                          THEN [year |-> y, month |-> m, day |-> d]
                          ELSE NoDate

\* the results of validate_expiry
ResultOk == <<"O", "K">>
ResultNg ==
    <<"N", "G", " ", "(", "u671F", "u9650", "u5207", "u308C", "/",
      "u6B8B", "u5B58", "u4E0D", "u8DB3", ")">>
ResultBlank == <<"u4E0D", "u660E", " ", "(", "u7A7A", "u6B04", ")">>
ResultFormat ==
    <<"u4E0D", "u660E", " ", "(", "u5F62", "u5F0F", "u30A8", "u30E9", "u30FC", ")">>

\* lines 521-529, with the entry_date and required_days of the form
validate_expiry(expiry_str, entry_date, required_days) ==
    IF expiry_str = <<>> \/ expiry_str = None \/ expiry_str = NaN
    THEN ResultBlank
    ELSE LET exp_dt == StrpTime(Strip(expiry_str))
             limit_date == ToOrdinal(entry_date) + required_days
         IN  IF exp_dt = NoDate THEN ResultFormat
             ELSE IF limit_date > MaxOrdinal THEN ResultFormat
             ELSE IF ToOrdinal(exp_dt) >= limit_date THEN ResultOk
             ELSE ResultNg

\* lines 517-539: the results of the rows and the message shown, nothing
\* when the button was not pressed or the table is empty
check_expiry(form) ==
    IF form.check_clicked /\ form.rows # <<>>
    THEN LET results == [i \in 1..Len(form.rows) |->
                            validate_expiry(form.rows[i], form.entry_date,
                                            form.required_days)]
             ng_items == {i \in 1..Len(results) : Contains(<<"N", "G">>, results[i])}
         IN  [results |-> results,
              message |-> IF ng_items # {} THEN "error" ELSE "success",
              ng_count |-> Cardinality(ng_items)]
    ELSE [results |-> <<>>, message |-> "none", ng_count |-> 0]

\* the number of rows of the table of the data tab
MaxExpiryRows == 2

\* the cells of the expiry column: blank, no value, the day entry + 180 days
\* ends on, the day before, unpadded, with spaces around, the day of entry,
\* the day before it, with dashes, a day that does not exist
ExpiryPool ==
    { <<>>, NaN,
      <<"2", "0", "2", "7", "/", "0", "4", "/", "3", "0">>,
      <<"2", "0", "2", "7", "/", "0", "4", "/", "2", "9">>,
      <<"2", "0", "2", "7", "/", "4", "/", "3", "0">>,
      <<" ", "2", "0", "2", "7", "/", "0", "5", "/", " ", "1", " ">>,
      <<"2", "0", "2", "6", "/", "1", "1", "/", "0", "1">>,
      <<"2", "0", "2", "6", "/", "1", "0", "/", "3", "1">>,
      <<"2", "0", "2", "7", "-", "0", "5", "-", "0", "1">>,
      <<"2", "0", "2", "7", "/", "0", "2", "/", "2", "9">> }

\* the days of entry and the remaining days asked for
EntryDates == { [year |-> 2026, month |-> 11, day |-> 1],
                [year |-> 2024, month |-> 2, day |-> 29] }
RequiredDays == {0, 180}

InitExpiry ==
    \E rows \in SeqsUpTo(ExpiryPool, MaxExpiryRows), e \in EntryDates,
       n \in RequiredDays, clicked \in BOOLEAN :
        InitHelper([rows |-> rows, entry_date |-> e, required_days |-> n,
                    check_clicked |-> clicked], 2026, "call_check")

\* one run of the script with the form and the table of arg
CheckExpiry ==
    /\ pc = "call_check"
    /\ ret' = check_expiry(arg)
    /\ pc' = "checked"
    /\ UNCHANGED <<now_year, full_text, annotations, line1, line2, l2fix, mrz_data,
                   viz_data, merged, data, raised, arg>>

SpecExpiry == InitExpiry /\ [][CheckExpiry]_vars

----------------------------------------------------------------------------
(* Properties of the record parse_response returns *)

\* the keys of the record
RecordKeys ==
    {"passport_no", "surname", "given_name", "birth_date", "sex", "nationality",
     "domicile", "issue_date", "expiry_date", "raw_mrz"}

\* the keys whose value is merged from the two extractors
FieldKeys == RecordKeys \ {"raw_mrz"}

\* the extractor's dict d has a non-empty value under k
Present(d, k) == k \in DOMAIN d /\ d[k] # None /\ d[k] # <<>>

\* no extractor has a value for k
Unresolved(k) == ~Present(viz_data, k) /\ ~Present(mrz_data, k)

\* v is a str: a sequence of characters, not None
IsStr(v) == v # None /\ \A i \in 1..Len(v) : v[i] # "<None>"

\* an MRZ block was found
MrzFound == line1 # None /\ line1 # <<>> /\ line2 # None /\ line2 # <<>>

\* C1 (as amended): the record has exactly the ten keys, every value is a
\* str and never None, and a field no extractor resolved is the empty string,
\* except nationality, which then is "JPN".
C1_RecordShape ==
    pc = "done" =>
        /\ DOMAIN data = RecordKeys
        /\ \A k \in RecordKeys : IsStr(data[k])
        /\ \A k \in FieldKeys :
               Unresolved(k) =>
                   data[k] = IF k = "nationality" THEN <<"J", "P", "N">> ELSE <<>>

\* C1, a record whose nationality and surname no extractor resolved
C1_Witness ==
    /\ pc = "done"
    /\ Unresolved("nationality") /\ data["nationality"] = <<"J", "P", "N">>
    /\ Unresolved("surname") /\ data["surname"] = <<>>
    /\ \E k \in FieldKeys : ~Unresolved(k)

\* C1 as stated: the record has exactly the ten keys, every value is a str
\* and never None, and every field no extractor resolved is the empty string.
C1_AsStated ==
    pc = "done" =>
        /\ DOMAIN data = RecordKeys
        /\ \A k \in RecordKeys : IsStr(data[k])
        /\ \A k \in FieldKeys : Unresolved(k) => data[k] = <<>>

\* what the decoding of line 2 must have produced from the corrected line 2,
\* each sub-field on its own
Line2SubFields ==
    LET n == Len(l2fix)
        digits(a, b) == a <= b /\ \A i \in a..b : l2fix[i] \in Digits
    IN  /\ ("passport_no" \in DOMAIN mrz_data) <=>
               (n >= 9 /\ \A i \in 1..9 : l2fix[i] \in UpperLetters \cup Digits)
        /\ ("birth_date" \in DOMAIN mrz_data) <=> (n >= 20 /\ digits(14, 19))
        /\ ("sex" \in DOMAIN mrz_data) <=> n >= 21
        /\ ("sex" \in DOMAIN mrz_data) => mrz_data["sex"] = <<l2fix[21]>>
        /\ ("expiry_date" \in DOMAIN mrz_data) <=>
               (n >= 22 /\ digits(22, IF n < 27 THEN n ELSE 27))

VizFirst ==
    {"passport_no", "birth_date", "expiry_date", "issue_date", "sex",
     "nationality", "domicile"}

MrzFirst == {"surname", "given_name"}

C4_RawMrz ==
    pc = "done" =>
        IF MrzFound
        THEN /\ data["raw_mrz"] = line1 \o <<"\n">> \o line2
             /\ data["raw_mrz"] = mrz_data["raw_mrz"]
             /\ \E i \in 1..Len(Candidates(full_text)) :
                    /\ Candidates(full_text)[i] = line1
                    /\ i < Len(Candidates(full_text))
                    /\ Candidates(full_text)[i + 1] = line2
        ELSE data["raw_mrz"] = <<>>

\* C4, a line 2 the correction has changed
C4_Witness ==
    /\ pc = "done"
    /\ MrzFound
    /\ l2fix # line2
    /\ data["raw_mrz"] = line1 \o <<"\n">> \o line2

\* C4 as stated: raw_mrz is, when an MRZ block is found, line 1 and the
\* corrected line 2 joined by one line break; it is the empty string when no
\* MRZ block is found.
C4_AsStated ==
    pc = "done" =>
        IF MrzFound
        THEN data["raw_mrz"] = line1 \o <<"\n">> \o l2fix
        ELSE data["raw_mrz"] = <<>>

----------------------------------------------------------------------------
(* Properties of convert_yymmdd_to_fmt *)

\* s has the form YYYY/MM/DD
IsYmd(s) ==
    /\ Len(s) = 10
    /\ s[5] = "/" /\ s[8] = "/"
    /\ \A i \in {1, 2, 3, 4, 6, 7, 9, 10} : s[i] \in Digits

\* the number two digits stand for
TwoDigits(s) == 10 * DigitVal[s[1]] + DigitVal[s[2]]

\* the call has returned and its argument was a string of six digits
ReturnedSixDigits ==
    /\ pc = "returned"
    /\ Len(arg.yymmdd) = 6
    /\ \A i \in 1..6 : arg.yymmdd[i] \in Digits

\* C5: of six digits yymmdd with mm in 1..12, convert_yymmdd_to_fmt makes a
\* string of the form YYYY/MM/DD whose month and day are the two digits mm
\* and dd, whatever future is; with mm outside 1..12 it returns the six
\* digits unchanged.
C5_Convert ==
    ReturnedSixDigits =>
        IF TwoDigits(SubSeq(arg.yymmdd, 3, 4)) \in 1..12
        THEN /\ IsYmd(ret)
             /\ SubSeq(ret, 6, 7) = SubSeq(arg.yymmdd, 3, 4)
             /\ SubSeq(ret, 9, 10) = SubSeq(arg.yymmdd, 5, 6)
        ELSE ret = arg.yymmdd

\* C5, a one-digit month and day that had to be padded
C5_Witness ==
    /\ pc = "returned"
    /\ arg.yymmdd = <<"0", "5", "0", "9", "0", "9">>
    /\ arg.future
    /\ ret = <<"2", "0", "0", "5", "/", "0", "9", "/", "0", "9">>

\* C6: with a valid month, an expiry date (future) gets the year 2000 + yy;
\* a birth date gets 1900 + yy if yy is above the current year modulo 100
\* and 2000 + yy otherwise; so a birth year is never after the current year
\* while that is within 2000..2099.
C6_TwoDigitYear ==
    (ReturnedSixDigits /\ TwoDigits(SubSeq(arg.yymmdd, 3, 4)) \in 1..12) =>
        LET yy == TwoDigits(SubSeq(arg.yymmdd, 1, 2))
            full_year == DigitsVal(SubSeq(ret, 1, 4))
        IN  /\ ret[5] = "/"
            /\ arg.future => full_year = 2000 + yy
            /\ ~arg.future =>
                   full_year = IF yy > now_year % 100 THEN 1900 + yy ELSE 2000 + yy
            /\ (~arg.future /\ now_year \in 2000..2099) => full_year <= now_year

\* C6, a birth date whose two-digit year is the current one
C6_Witness ==
    /\ pc = "returned"
    /\ now_year = 2026
    /\ ~arg.future
    /\ arg.yymmdd = <<"2", "6", "0", "1", "0", "1">>
    /\ ret = <<"2", "0", "2", "6", "/", "0", "1", "/", "0", "1">>

----------------------------------------------------------------------------
(* Properties of the correction of MRZ line 2 *)

\* the characters the correction replaces, and by what
Confusions ==
    ("O" :> "0") @@ ("I" :> "1") @@ ("D" :> "0") @@ ("S" :> "5") @@
    ("B" :> "8") @@ ("Z" :> "2")

\* the offsets of the two date windows of line 2
DateWindows == (13..18) \cup (21..26)

\* C7: the correction of line 2 keeps the length of the line, replaces
\* O, I, D, S, B, Z by 0, 1, 0, 5, 8, 2 at the offsets 13-18 and 21-26, and
\* leaves every character at any other offset as it is.
C7_CorrectionFrame ==
    l2fix # None =>
        /\ Len(l2fix) = Len(line2)
        /\ \A i \in 1..Len(line2) :
               l2fix[i] = IF (i - 1) \in DateWindows /\ line2[i] \in DOMAIN Confusions
                          THEN Confusions[line2[i]]
                          ELSE line2[i]

\* C7, an O at offset 14 that has become 0 next to a Z at offset 1 that has
\* stayed Z
C7_Witness ==
    /\ l2fix # None
    /\ Len(line2) = 32
    /\ line2[15] = "O" /\ l2fix[15] = "0"
    /\ line2[2] = "Z" /\ l2fix[2] = "Z"

----------------------------------------------------------------------------
(* Properties of parse_date_from_text *)

\* C8 as stated: a day D of one or two digits, a month abbreviation M of
\* the table and a year Y of the form 19xx or 20xx, laid out as "D M Y",
\* "DM Y" or "M D Y", parse to Y/MM/DD with the day padded to two digits.
C8_AsStated ==
    (pc = "returned" /\ arg.layout \in Layouts) =>
        ret = arg.year \o <<"/">> \o month_map[arg.k].num \o <<"/">> \o
                  (IF Len(arg.day) = 1 THEN <<"0">> \o arg.day ELSE arg.day)

\* the words of the normalized text: what stands between its spaces
DateTokens(text) ==
    LET parts == Split(DateNorm(text), <<" ">>)
    IN  {parts[i] : i \in 1..Len(parts)}

HasMonth(text) ==
    \E k \in 1..Len(month_map) : Contains(month_map[k].mon, DateNorm(text))

\* a word of four digits that starts with 19 or 20
HasStandaloneYear(text) ==
    \E w \in DateTokens(text) :
        /\ Len(w) = 4
        /\ \A i \in 1..4 : w[i] \in Digits
        /\ SubSeq(w, 1, 2) \in {<<"1", "9">>, <<"2", "0">>}

\* a word of one or two digits
HasStandaloneShortNumber(text) ==
    \E w \in DateTokens(text) :
        Len(w) \in {1, 2} /\ \A i \in 1..Len(w) : w[i] \in Digits

\* C9 as stated: parse_date_from_text returns the empty string for a text
\* with a month abbreviation but no standalone year 19xx or 20xx, and a
\* non-empty value only for a text that has a month abbreviation, such a
\* year and a standalone number of one or two digits.
C9_AsStated ==
    pc = "returned" =>
        /\ (HasMonth(arg.text) /\ ~HasStandaloneYear(arg.text)) => ret = <<>>
        /\ ret # <<>> =>
               /\ HasMonth(arg.text)
               /\ HasStandaloneYear(arg.text)
               /\ HasStandaloneShortNumber(arg.text)

----------------------------------------------------------------------------
(* Properties of the dates of the record *)

DateKeys == {"birth_date", "issue_date", "expiry_date"}

\* C10 as stated: every date of the record parse_response returns is the
\* empty string or has the form YYYY/MM/DD.
C10_AsStated ==
    pc = "done" =>
        \A k \in DateKeys : data[k] = <<>> \/ IsYmd(data[k])

----------------------------------------------------------------------------
(* Properties of normalize_text *)

\* C11 as stated: normalize_text applied to its own result returns that
\* result unchanged.
C11_AsStated ==
    pc = "normalized_again" => ret = arg.text

----------------------------------------------------------------------------
(* Properties of the domicile *)

\* the spatial matcher has run
VizDone == pc \in {"viz_done", "done"}

\* the canonical names that occur in the upper-cased text read for the domicile
NamesInDomicileText ==
    LET upper_text == Upper(DomicileText(annotations))
    IN  {p \in JAPAN_PREFECTURES : Contains(p, upper_text)}

\* C12: when the upper-cased text read for the domicile contains a canonical
\* prefecture name, the domicile the spatial matcher resolves is one of the
\* canonical names that occur in it (the one, when only one occurs), nothing
\* of the surrounding text, and it is the domicile of the record.
C12_DomicilePrimary ==
    VizDone =>
        LET names == NamesInDomicileText
        IN  names # {} =>
                /\ "domicile" \in DOMAIN viz_data
                /\ viz_data["domicile"] \in names
                /\ pc = "done" => data["domicile"] = viz_data["domicile"]

\* C12, one name with two other words after it
C12_Witness ==
    /\ pc = "done"
    /\ Len(annotations) = 4
    /\ NamesInDomicileText = {<<"O", "K", "I", "N", "A", "W", "A">>}
    /\ Len(DomicileText(annotations)) > 7
    /\ data["domicile"] = <<"O", "K", "I", "N", "A", "W", "A">>

\* the characters the fallback removes: digits, filler, punctuation
FallbackNoise == Digits \cup {"*", "<", ":", ";", ",", "."}

\* the characters of Japanese labels the fallback cuts at
FallbackLabelChars == {"u767A", "u884C", "u5E74", "u6708", "u65E5"}

\* s up to the first character of FallbackLabelChars
BeforeLabelChar(s) ==
    LET at == {i \in 1..Len(s) : s[i] \in FallbackLabelChars}
    IN  IF at = {} THEN s ELSE SubSeq(s, 1, SetMin(at) - 1)

\* the positions where a word of s of more than one character starts
LongWordStarts(s) ==
    {i \in 1..(Len(s) - 1) :
        /\ s[i] \notin Whitespace
        /\ s[i + 1] \notin Whitespace
        /\ i = 1 \/ s[i - 1] \in Whitespace}

\* the word of s that starts at i
WordAt(s, i) ==
    LET stops == {j \in i..Len(s) : s[j] \in Whitespace}
    IN  SubSeq(s, i, IF stops = {} THEN Len(s) ELSE SetMin(stops) - 1)

RECURSIVE WordsJoined(_, _)
\* the words of s that start at the positions of starts, joined by spaces
WordsJoined(s, starts) ==
    IF starts = {} THEN <<>>
    ELSE LET i == SetMin(starts)
             rest == WordsJoined(s, starts \ {i})
         IN  IF rest = <<>> THEN WordAt(s, i) ELSE WordAt(s, i) \o <<" ">> \o rest

\* what the fallback is to make of the text read for the domicile
FallbackExpected(text) ==
    LET head == BeforeLabelChar(SelectSeq(text, LAMBDA c : c \notin FallbackNoise))
    IN  WordsJoined(head, LongWordStarts(head))

\* C13: when the text read for the domicile contains no prefecture name, the
\* domicile the spatial matcher resolves is that text without digits, filler
\* and punctuation, cut before the first character of a Japanese label, its
\* words of more than one character joined by spaces; when nothing remains
\* the domicile is unresolved and the domicile of the record is "".
C13_DomicileFallback ==
    (VizDone /\ NamesInDomicileText = {}) =>
        LET expected == FallbackExpected(DomicileText(annotations))
        IN  IF expected = <<>>
            THEN /\ "domicile" \notin DOMAIN viz_data
                 /\ pc = "done" => data["domicile"] = <<>>
            ELSE /\ "domicile" \in DOMAIN viz_data
                 /\ viz_data["domicile"] = expected

\* C13, a digit removed from a word, a word of one character dropped and a
\* word cut at a character of a label
C13_Witness ==
    /\ pc = "done"
    /\ Len(annotations) = 4
    /\ NamesInDomicileText = {}
    /\ "domicile" \in DOMAIN viz_data
    /\ viz_data["domicile"] = <<"T", "K", "Y", "O", " ", "A", "B">>

----------------------------------------------------------------------------
(* Properties of the spatial matcher *)

\* the box of b is directly below the box of a, in its column: the same left
\* edge, at most as wide, the top at the bottom of a or up to one height of
\* a below it
DirectlyBelow(a, b) ==
    LET ba == get_bbox(a)
        bb == get_bbox(b)
    IN  /\ ba.max_x > ba.min_x /\ ba.max_y > ba.min_y
        /\ bb.min_x = ba.min_x
        /\ bb.max_x - bb.min_x <= ba.max_x - ba.min_x
        /\ bb.min_y >= ba.max_y
        /\ bb.min_y - ba.max_y <= 2 * (ba.max_y - ba.min_y)

\* s is a word of Latin letters
IsLetters(s) == s # <<>> /\ \A i \in 1..Len(s) : s[i] \in UpperLetters \cup LowerLetters

\* the page is a label "Surname" and one word of letters, no label itself,
\* directly below it, and the text has no MRZ block
SurnameAlone ==
    /\ Len(annotations) = 2
    /\ annotations[1].description = <<"S", "u", "r", "n", "a", "m", "e">>
    /\ IsLetters(annotations[2].description)
    /\ Upper(annotations[2].description) \notin stop_words
    /\ DirectlyBelow(annotations[1], annotations[2])
    /\ full_text = <<>>

\* C14: of a label "Surname" and one word directly below it, with no MRZ
\* block in the text, the spatial matcher makes the surname that word, and
\* the surname of the record is that word.
C14_SurnameBelow ==
    (VizDone /\ SurnameAlone) =>
        /\ "surname" \in DOMAIN viz_data
        /\ viz_data["surname"] = annotations[2].description
        /\ pc = "done" => data["surname"] = annotations[2].description

\* C14, TANAKA at the bottom of a label four high
C14_Witness ==
    /\ pc = "done"
    /\ SurnameAlone
    /\ get_bbox(annotations[2]).min_y = get_bbox(annotations[1]).max_y
    /\ get_bbox(annotations[1]).max_y - get_bbox(annotations[1]).min_y = 4
    /\ mrz_data = EmptyDict
    /\ data["surname"] = <<"T", "A", "N", "A", "K", "A">>

\* the orders the tokens of the page can be supplied in
Reorderings(anns) ==
    LET n == Len(anns)
        perms == {f \in [1..n -> 1..n] : \A i, j \in 1..n : f[i] = f[j] => i = j}
    IN  {[i \in 1..n |-> anns[f[i]]] : f \in perms}

\* C15 as stated: parse_viz_layout returns the same fields for the tokens of
\* a page in any order, also when two tokens have the same top left corner.
C15_AsStated ==
    VizDone =>
        \A anns \in Reorderings(annotations) :
            \E pref \in PrefChoices(anns) :
                parse_viz_layout(anns, full_text, pref) = viz_data

----------------------------------------------------------------------------
(* Properties of parse_response as a mapping *)

\* C16 as stated: every call of parse_response on the same full text and
\* tokens returns the same record, in whatever year it is made and whatever
\* the order is in which the process iterates over the set of prefectures.
C16_AsStated ==
    pc = "done" =>
        \A year \in NowYears, pref \in PrefChoices(annotations) :
            parse_response(full_text, annotations, year, pref) = data

----------------------------------------------------------------------------
(* Two calls at the same time *)

\* the records a call on text and anns can return when it runs alone
Alone(text, anns) ==
    {parse_response(text, anns, now_year, pref) : pref \in PrefChoices(anns)}

----------------------------------------------------------------------------
(* The migration of a table *)

\* the columns of a file
ColumnsOf(file) == {file.columns[k] : k \in 1..Len(file.columns)}

\* the 13 headers
Canonical == {expected_headers[k] : k \in 1..Len(expected_headers)}

\* ensure_excel_columns has returned from a file that exists and can be read
Migrated == pc = "ensured" /\ arg.exists /\ arg.readable

\* every header is a column, a column that was missing holds the empty
\* string in every row, the headers are in their order, and the cells of the
\* rows in the columns that were there are as they were
CanonicalPart ==
    /\ Canonical \subseteq ColumnsOf(ret)
    /\ Len(ret.rows) = Len(arg.rows)
    /\ \A c \in Canonical \ ColumnsOf(arg) :
           \A i \in 1..Len(ret.rows) : ret.rows[i][c] = <<>>
    /\ SelectSeq(ret.columns, LAMBDA c : c \in Canonical) = expected_headers
    /\ \A c \in Canonical \cap ColumnsOf(arg) :
           \A i \in 1..Len(arg.rows) : ret.rows[i][c] = arg.rows[i][c]

\* the columns that are none of the headers are still there with their cells
LegacyPart ==
    \A c \in ColumnsOf(arg) \ Canonical :
        /\ c \in ColumnsOf(ret)
        /\ \A i \in 1..Len(arg.rows) : ret.rows[i][c] = arg.rows[i][c]

\* C18, as the specification states it: after the migration of a table the
\* 13 headers are all present and in their order, a column that was missing
\* is empty, the cells of the rows are unchanged, and the data of every
\* column that is none of the 13 is still present.
C18_AsStated == Migrated => CanonicalPart /\ LegacyPart

----------------------------------------------------------------------------
(* The pair of MRZ lines *)

\* seq is dense in digits: more than 20 characters, more than 0.4 of them digits
DigitDense(seq) == Len(seq) > 20 /\ 5 * DigitCount(seq) > 2 * Len(seq)

\* seq can stand above a line 2: it starts with P or has two fillers
AboveLine2(seq) == seq[1] = "P" \/ CountCh(seq, "<") >= 2

\* the positions of the dense candidates with such a line above them
DensePositions(candidates) ==
    {i \in 2..Len(candidates) :
        DigitDense(candidates[i]) /\ AboveLine2(candidates[i - 1])}

\* the positions of the candidates that start with P, have two fillers and
\* stand above a candidate with more than 5 digits
AnchorPositions(candidates) ==
    {j \in 1..(Len(candidates) - 1) :
        /\ candidates[j][1] = "P"
        /\ CountCh(candidates[j], "<") >= 2
        /\ DigitCount(candidates[j + 1]) > 5}

\* the lines of the text have been paired
Paired ==
    pc \in {"selected", "corrected", "line1_done", "aborted", "mrz_done",
            "viz_done", "done"}

\* C19: the pair is the first dense candidate that has a line starting with
\* P or holding two fillers above it, together with that line. Only when
\* there is no such candidate, the pair is the first candidate that starts
\* with P, holds two fillers and stands above a candidate with more than 5
\* digits, together with that candidate. When there is neither, no line is
\* selected and parse_mrz_text returns no field at all.
C19_PairingOrder ==
    Paired =>
        LET candidates == Candidates(full_text)
            dense == DensePositions(candidates)
            anchor == AnchorPositions(candidates)
        IN  IF dense # {}
            THEN /\ line1 = candidates[SetMin(dense) - 1]
                 /\ line2 = candidates[SetMin(dense)]
            ELSE IF anchor # {}
            THEN /\ line1 = candidates[SetMin(anchor)]
                 /\ line2 = candidates[SetMin(anchor) + 1]
            ELSE /\ line1 = None
                 /\ line2 = None
                 /\ pc \in {"mrz_done", "viz_done", "done"} => mrz_data = EmptyDict

\* a pair is selected at a dense candidate although a dense candidate
\* stands before it: that one has no line starting with P or holding two
\* fillers above it
C19_Witness ==
    /\ pc = "done"
    /\ DensePositions(Candidates(full_text)) # {}
    /\ \E i \in 1..Len(Candidates(full_text)) :
           /\ DigitDense(Candidates(full_text)[i])
           /\ i < SetMin(DensePositions(Candidates(full_text)))
    /\ line2 = Candidates(full_text)[SetMin(DensePositions(Candidates(full_text)))]

----------------------------------------------------------------------------
(* The density of digits *)

----------------------------------------------------------------------------
(* The sub-fields of line 2, as stated *)

\* parse_mrz_text has returned with a pair of lines
MrzDecoded == pc \in {"mrz_done", "viz_done", "done"} /\ MrzFound

\* the leading run of letters A-Z and digits of s, at most 9 characters
LeadingRun(s) ==
    LET other == {i \in 1..Len(s) : s[i] \notin UpperLetters \cup Digits}
        n == IF other = {} THEN Len(s) ELSE SetMin(other) - 1
    IN  SubSeq(s, 1, IF n > 9 THEN 9 ELSE n)

\* C21, as the specification states it: the passport number decoded from
\* line 2 is the leading run of letters A-Z and digits of line 2, at most 9
\* characters of it, also when the run is shorter than 9 characters.
C21_AsStated ==
    (MrzDecoded /\ LeadingRun(l2fix) # <<>>) =>
        /\ "passport_no" \in DOMAIN mrz_data
        /\ mrz_data["passport_no"] = LeadingRun(l2fix)

\* the characters of s at the offsets a..b (0-based) are all there, all digits
WindowOfDigits(s, a, b) == Len(s) > b /\ \A i \in (a + 1)..(b + 1) : s[i] \in Digits

\* C22, as the specification states it: the birth date is decoded exactly
\* when line 2 has the offsets 13-18 and all six characters are digits, the
\* expiry date exactly when it has the offsets 21-26 and all six are digits;
\* a window that is only partly there gives no value.
C22_AsStated ==
    MrzDecoded =>
        /\ "birth_date" \in DOMAIN mrz_data <=> WindowOfDigits(l2fix, 13, 18)
        /\ "expiry_date" \in DOMAIN mrz_data <=> WindowOfDigits(l2fix, 21, 26)

----------------------------------------------------------------------------
(* The surname of line 1, as stated *)

\* s up to its first "<<"
FirstSegment(s) ==
    LET at == {i \in 1..(Len(s) - 1) : s[i] = "<" /\ s[i + 1] = "<"}
    IN  IF at = {} THEN s ELSE SubSeq(s, 1, SetMin(at) - 1)

\* the positions of s where "JPN" starts
JpnAt(s) ==
    {i \in 1..(Len(s) - 2) : s[i] = "J" /\ s[i + 1] = "P" /\ s[i + 2] = "N"}

\* C23, as the specification states it: of the first segment of line 1
\* without its leading P, the surname is what follows the first "JPN",
\* trimmed; without "JPN" it is the segment without its first 5 characters
\* when the segment is longer than 5 characters, else the whole segment.
C23_AsStated ==
    (MrzDecoded /\ line1[1] = "P") =>
        LET segment == FirstSegment(SubSeq(line1, 2, Len(line1)))
        IN  /\ "surname" \in DOMAIN mrz_data
            /\ mrz_data["surname"] =
                   IF JpnAt(segment) # {}
                   THEN Strip(SubSeq(segment, SetMin(JpnAt(segment)) + 3, Len(segment)))
                   ELSE IF Len(segment) > 5
                   THEN SubSeq(segment, 6, Len(segment))
                   ELSE segment

----------------------------------------------------------------------------
(* The region of a label *)

\* the page is a label "Surname", possibly a second label, and one word of
\* letters that is no stop word
OneValue ==
    /\ Len(annotations) \in {2, 3}
    /\ annotations[1].description = <<"S", "u", "r", "n", "a", "m", "e">>
    /\ LabelText(annotations[Len(annotations)].description) \notin stop_words
    /\ IsLetters(annotations[Len(annotations)].description)
    /\ \A i \in 2..(Len(annotations) - 1) :
           StopText(annotations[i].description) \in stop_words

\* the value of such a page is the surname the spatial matcher resolves
ValueTaken ==
    /\ "surname" \in DOMAIN viz_data
    /\ viz_data["surname"] = annotations[Len(annotations)].description

\* the three conditions on the value t of an anchor a, the edges of the
\* region left out (closed = FALSE) or taken in (closed = TRUE): 10 times
\* the top against 10 times the top of the anchor plus its height, twice the
\* gap against 5 heights, 4 times the centre against 4 times the interval
InRegion(a, t, closed) ==
    LET ba == get_bbox(a)
        bt == get_bbox(t)
        h == ba.max_y - ba.min_y
        w == ba.max_x - ba.min_x
        cx4 == t.vertices[1].x + t.vertices[2].x + t.vertices[3].x + t.vertices[4].x
        lo4 == 4 * (ba.min_x - 8 * w)
        hi4 == 4 * (ba.max_x + 5 * w)
    IN  /\ IF closed THEN 10 * bt.min_y >= 10 * ba.min_y + h
                     ELSE 10 * bt.min_y > 10 * ba.min_y + h
        /\ 2 * (bt.min_y - ba.max_y) < 5 * h
        /\ IF closed THEN lo4 <= cx4 /\ cx4 <= hi4
                     ELSE lo4 < cx4 /\ cx4 < hi4

\* C24, amended: a token is a value candidate exactly when its top is more
\* than 0.1 of the height of the anchor below the top of the anchor, its top
\* is less than 2.5 heights below the bottom of the anchor, and its centre
\* lies strictly between 8 widths left of the left edge and 5 widths right
\* of the right edge of the anchor; a token on an edge is no candidate.
C24_RegionOpen ==
    (VizDone /\ OneValue) =>
        (ValueTaken <=> InRegion(annotations[1], annotations[Len(annotations)], FALSE))

\* a value whose top is exactly 0.1 of the height below the top of the anchor
\* has been left out
C24_Witness ==
    /\ pc = "done"
    /\ OneValue
    /\ get_bbox(annotations[Len(annotations)]).min_y = 11
    /\ get_bbox(annotations[Len(annotations)]).min_x = 100
    /\ "surname" \notin DOMAIN viz_data

\* C24, as the specification states it: the same with the edges taken in
\* (the top at least 0.1 of the height below the top of the anchor, the
\* centre within the closed interval).
C24_AsStated ==
    (VizDone /\ OneValue) =>
        (ValueTaken <=> InRegion(annotations[1], annotations[Len(annotations)], TRUE))

----------------------------------------------------------------------------
(* Stop words, as stated *)

\* the tokens of the page in the region of the label "Surname", in reading
\* order
InRegionSorted ==
    SortTopLeft(SelectSeq(SubSeq(annotations, 2, Len(annotations)),
                          LAMBDA t : InRegion(annotations[1], t, FALSE)))

\* the words of the tokens of seq before its first stop word, joined
BeforeStopWord(seq) ==
    LET stops == {i \in 1..Len(seq) : LabelText(seq[i].description) \in stop_words}
        n == IF stops = {} THEN Len(seq) ELSE SetMin(stops) - 1
    IN  Join([i \in 1..n |-> seq[i].description], <<" ">>)

\* C25, as the specification states it: the collection for a key other than
\* the nationality halts at the first stop word of the region in reading
\* order: the value is built from the tokens before it, and no token after
\* it contributes.
C25_AsStated ==
    (VizDone /\ OneValue) =>
        LET expected == BeforeStopWord(InRegionSorted)
        IN  IF expected = <<>>
            THEN "surname" \notin DOMAIN viz_data
            ELSE "surname" \in DOMAIN viz_data /\ viz_data["surname"] = expected

----------------------------------------------------------------------------
(* The anchor of a key *)

\* the positions of the tokens that match a label of the target tgt
MatchedAt(tgt) ==
    {i \in 1..Len(annotations) :
        \E k \in 1..Len(tgt.labels) :
            LabelMatches(tgt.labels[k], LabelText(annotations[i].description))}

\* the value the cleaners make of what lies in the region of the anchor a
ValuesBelow(a, key) ==
    {CleanValue(key, CombinedText(annotations, a, key), pref) :
        pref \in PrefChoices(annotations)}

\* the value of key in viz_data comes from the anchor a: it is the value
\* below a, or absent when there is none
ResolvedFrom(a, key) ==
    \E val \in ValuesBelow(a, key) :
        IF val = <<>> THEN key \notin DOMAIN viz_data
        ELSE key \in DOMAIN viz_data /\ viz_data[key] = val

\* C26: when several tokens match the labels of a key, the value of the key
\* is read below a matched token whose (top, left) is the smallest; no
\* exception is raised and the record is produced; a key without matched
\* token is unresolved (the passport number may then come from the full text).
C26_AnchorSelection ==
    VizDone =>
        /\ raised = ""
        /\ \A k \in 1..Len(targets) :
               LET key == targets[k].key
                   matched == MatchedAt(targets[k])
               IN  IF matched = {}
                   THEN key \in DOMAIN viz_data =>
                            key = "passport_no" /\ PassportSearch(full_text).found
                   ELSE \/ \E i \in matched :
                              /\ \A j \in matched : ~KeyLess(annotations[j], annotations[i])
                              /\ ResolvedFrom(annotations[i], key)
                        \/ /\ key = "passport_no"
                           /\ PassportSearch(full_text).found

\* three tokens match the surname, the first of the page is the lowest, and
\* the surname is the word below the one at the top left
C26_Witness ==
    /\ pc = "done"
    /\ Cardinality(MatchedAt(targets[2])) = 3
    /\ annotations[1].description = <<"u59D3">>
    /\ "surname" \in DOMAIN viz_data
    /\ viz_data["surname"] = <<"T", "A", "N", "A", "K", "A">>

----------------------------------------------------------------------------
(* The passport number of the spatial matcher *)

\* what the labelled regions give, before the full text is searched
RegionData ==
    VizTargets(EmptyDict, annotations, 1, CHOOSE pref \in PrefChoices(annotations) : TRUE)

\* two upper-case letters followed by seven digits and nothing else
IsPassportNo(s) ==
    /\ Len(s) = 9
    /\ \A i \in 1..2 : s[i] \in UpperLetters
    /\ \A i \in 3..9 : s[i] \in Digits

\* the passport number of viz_data is the one of the labelled regions when
\* they give one, else the match of the pattern in the full text, else absent
FallbackWhenNoRegion ==
    LET region == Get(RegionData, "passport_no")
        m == PassportSearch(full_text)
    IN  IF region # None THEN Get(viz_data, "passport_no") = region
        ELSE IF m.found THEN Get(viz_data, "passport_no") = m.letters \o m.digits
        ELSE "passport_no" \notin DOMAIN viz_data

\* the passport number of viz_data, when set, has the form of the pattern
SpatialNumberForm ==
    "passport_no" \in DOMAIN viz_data => IsPassportNo(viz_data["passport_no"])

\* the record carries the spatial passport number whenever the labelled
\* regions or the full text hold a match, so the number of the MRZ block is
\* in the record only when neither does
MrzNumberLast ==
    pc = "done" =>
        LET region == Get(RegionData, "passport_no")
            m == PassportSearch(full_text)
        IN  IF region # None \/ m.found
            THEN data["passport_no"] = normalize_text(viz_data["passport_no"])
            ELSE data["passport_no"] = normalize_text(merge_val(None, Get(mrz_data, "passport_no"), <<>>))

\* C27: the full text is searched for two letters and seven digits exactly
\* when the labelled regions gave no passport number; the passport number of
\* the spatial matcher, when set, is two upper-case letters followed by seven
\* digits without space; the passport number of the MRZ block reaches the
\* record only when neither the regions nor the full text hold a match.
C27_AsStated ==
    VizDone => FallbackWhenNoRegion /\ SpatialNumberForm /\ MrzNumberLast

----------------------------------------------------------------------------
(* The width of the letters of the domicile *)

\* the canonical names that occur in the text read for the domicile once it
\* is brought to half-width forms and upper case
NamesInNarrowText ==
    LET narrow == Upper(NfkcNormalize(DomicileText(annotations)))
    IN  {p \in JAPAN_PREFECTURES : Contains(p, narrow)}

\* C28: the text read for the domicile is brought to half-width forms before
\* it is matched: when it holds a canonical prefecture name in full-width or
\* half-width letters, the domicile of the spatial matcher and of the record
\* is that canonical name.
C28_AsStated ==
    LET names == NamesInNarrowText
    IN  VizDone /\ names # {} =>
            /\ Get(viz_data, "domicile") \in names
            /\ pc = "done" => data["domicile"] \in names

----------------------------------------------------------------------------
(* The nationality of the record *)

\* C29: the nationality of the record parse_response returns is "JPN",
\* whatever the page and the text say: the spatial matcher stores "JPN" or
\* nothing, parse_mrz_text stores no nationality, and the merge puts "JPN"
\* where both are empty.
C29_NationalityJpn ==
    /\ pc \in {"mrz_done", "viz_done", "done"} => "nationality" \notin DOMAIN mrz_data
    /\ VizDone /\ "nationality" \in DOMAIN viz_data =>
           viz_data["nationality"] = <<"J", "P", "N">>
    /\ pc = "done" => data["nationality"] = <<"J", "P", "N">>

\* a record made from a page with USA below the label of the nationality and
\* an MRZ block with USA in both lines
C29_Witness ==
    /\ pc = "done"
    /\ MrzFound
    /\ Contains(<<"U", "S", "A">>, line2)
    /\ Len(annotations) = 2
    /\ annotations[2].description = <<"U", "S", "A">>
    /\ "nationality" \notin DOMAIN viz_data
    /\ data["nationality"] = <<"J", "P", "N">>

----------------------------------------------------------------------------
(* The check of the remaining validity *)

\* the check ran on a table with rows
Checked == pc = "checked" /\ arg.check_clicked /\ arg.rows # <<>>

\* row i is judged as its expiry date says: OK when it parses and is on or
\* after entry date + required days, NG when it parses and is earlier,
\* unknown when it is blank or does not parse
JudgedByDate(i) ==
    LET cell == arg.rows[i]
        exp_dt == IF cell \in {<<>>, NaN} THEN NoDate ELSE StrpTime(Strip(cell))
        limit == ToOrdinal(arg.entry_date) + arg.required_days
    IN  IF exp_dt = NoDate THEN ret.results[i] \in {ResultBlank, ResultFormat}
        ELSE IF ToOrdinal(exp_dt) >= limit THEN ret.results[i] = ResultOk
        ELSE ret.results[i] = ResultNg

\* every row is judged as its expiry date says
RowsJudgedByDate == Checked => \A i \in 1..Len(arg.rows) : JudgedByDate(i)

\* C30: a row is OK exactly when its expiry date parses and is on or after
\* entry date + required days, NG when it parses and is earlier, unknown when
\* blank or unparseable; the message that everyone is OK is shown only when
\* every row was judged OK.
C30_AsStated ==
    /\ RowsJudgedByDate
    /\ Checked /\ ret.message = "success" =>
           \A i \in 1..Len(ret.results) : ret.results[i] = ResultOk

====
